---- MODULE Spec2Model ----
(***************************************************************************)
(* Model of the test-run result ingestion and aggregation pipeline of      *)
(* playwright-mcp-claude: the live DatabaseReporter and the offline        *)
(* ResultsIngester (both in scripts/verify-setup.sh) writing to the tables *)
(* of database/schema.sql.                                                 *)
(*                                                                         *)
(* Text is modelled as a sequence of tokens, so that concatenation, join,  *)
(* `includes` and the tag regex are computed and not assumed.              *)
(***************************************************************************)
EXTENDS Integers, Sequences, FiniteSets, TLC

(***************************************************************************)
(* Bounds of the model.                                                    *)
(***************************************************************************)
\* processes (reporter or ingester runs) started one after the other against the same database
MaxSessions == 2
\* queries that the database rejects (transient connection errors), over the whole behaviour
MaxFaults == 1
\* onTestEnd calls that may be in flight at the same time
MaxInFlight == 2

(***************************************************************************)
(* Text helpers.                                                           *)
(***************************************************************************)
\* the separator ' › ' of titlePath().join(' › ')
SEP == " > "

RECURSIVE JoinWith(_, _)
\* Array.prototype.join over token sequences
JoinWith(parts, sep) ==
    IF Len(parts) = 0 THEN <<>>
    ELSE IF Len(parts) = 1 THEN parts[1]
    ELSE parts[1] \o <<sep>> \o JoinWith(Tail(parts), sep)

\* String.prototype.includes, at token granularity
Includes(text, tok) == \E i \in 1..Len(text) : text[i] = tok

\* `a || b` on strings: the empty string is falsy
OrElse(a, b) == IF a = <<>> THEN b ELSE a

\* crypto.createHash('md5')...digest('hex'): modelled as collision free
md5(text) == <<"md5">> \o text

\* tokens that \w+ cannot match
NonWord == {"@", " ", "-", SEP, "::"}

\* the tags the regex /@(\w+)/g captures: every word that directly follows an '@'
TagsOf(title) ==
    LET idx == {i \in 1..(Len(title) - 1) : title[i] = "@" /\ title[i + 1] \notin NonWord}
        RECURSIVE pick(_)
        pick(i) == IF i >= Len(title) THEN <<>>
                   ELSE IF i \in idx THEN << <<title[i + 1]>> >> \o pick(i + 1)
                   ELSE pick(i + 1)
    IN  pick(1)

extractTags(title) == JoinWith(TagsOf(title), ",")

\* inferTestType is the same in both classes
inferTestType(filePath) ==
    IF Includes(filePath, ".api.spec") THEN "api"
    ELSE IF Includes(filePath, ".ui.spec") THEN "ui"
    ELSE IF Includes(filePath, ".performance.spec") THEN "performance"
    ELSE IF Includes(filePath, ".component.spec") THEN "component"
    ELSE IF Includes(filePath, "storybook") THEN "storybook"
    ELSE "e2e"

\* DatabaseReporter.getTestId: md5 of `${path}::${titlePath.join(' › ')}`
ReporterTestId(test) == md5(test.file \o <<"::">> \o JoinWith(test.titlePath, SEP))

\* ResultsIngester.getTestId: md5 of `${filePath}::${title}`
IngesterTestId(filePath, title) == md5(filePath \o <<"::">> \o title)

(***************************************************************************)
(* Inputs: what the test runner hands to the reporter (a Suite tree and a  *)
(* stream of onTestEnd(test, result) events) and what a JSON report file   *)
(* holds.  A project name of <<>> is a project without a name.             *)
(***************************************************************************)
OrdersFile == <<"tests/", "orders", ".api.spec", ".ts">>
LoadFile == <<"tests/", "load", ".performance.spec", ".ts">>

Chromium == <<"chromium">>
Firefox == <<"firefox">>

\* a TestCase of @playwright/test/reporter, as far as the reporter reads it
LiveTest(file, describes, title, project) ==
    [file |-> file, titlePath |-> describes \o <<title>>, title |-> title, project |-> project]

\* a Suite of @playwright/test/reporter: its own tests and its child suites
LiveSuite(tests, suites) == [tests |-> tests, suites |-> suites]

\* the time value of TestResult.startTime, in ms: 5 s and 250 ms after the epoch
StartTime == 5250

\* TestResult.duration of a live attempt, in ms
LiveDuration == 120

\* `duration` of a result in a JSON report, in tenths of a ms: 120.5 ms
JsonDuration == 1205

\* one onTestEnd event: the test and the TestResult of one attempt, whose startTime is a
\* Date (here its time value) and whose duration is a number of ms
Event(test, status, retry) ==
    [test |-> test, status |-> status, retry |-> retry, startTime |-> StartTime,
     duration |-> LiveDuration, stdout |-> <<>>]

\* the marker and the tokens of the text an attempt may print
Marker == "Performance Metrics: "
NumberTokens == {"120", "45"}
StringTokens == {"apiLatency", "renderTime", "ttfb", "fast"}

\* one chunk: Performance Metrics: {"apiLatency":120,"renderTime":"fast","ttfb":45}
MetricsLine ==
    <<Marker, "{", "apiLatency", ":", "120", ",", "renderTime", ":", "fast", ",", "ttfb", ":", "45", "}">>

\* one chunk with the same kind of object over several lines, as
\* JSON.stringify(metrics, null, 2) prints it
PrettyMetrics ==
    <<Marker, "{", "\n", "apiLatency", ":", "120", ",", "\n", "renderTime", ":", "fast", "\n", "}">>

\* one chunk whose object JSON.parse rejects:  Performance Metrics: {"apiLatency":120,}
BrokenMetrics == <<Marker, "{", "apiLatency", ":", "120", ",", "}">>

\* an event whose attempt wrote chunks to stdout
EventWithOutput(test, status, retry, stdout) == [Event(test, status, retry) EXCEPT !.stdout = stdout]

\* the title "lists @smoke-fast"
ListsTitle == <<"lists", " ", "@", "smoke", "-", "fast">>

ListsTest == LiveTest(OrdersFile, <<>>, ListsTitle, Chromium)
\* the test "creates" inside describe('@smoke', ...)
CreatesTest == LiveTest(OrdersFile, << <<"@", "smoke">> >>, <<"creates">>, Chromium)
DeletesTest == LiveTest(OrdersFile, <<>>, <<"deletes">>, Chromium)
SlowTest == LiveTest(LoadFile, <<>>, <<"slow">>, <<>>)
IdleTest == LiveTest(LoadFile, <<>>, <<"idle">>, <<>>)
ListsOnFirefox == LiveTest(OrdersFile, <<>>, ListsTitle, Firefox)
\* a top-level test whose title is the text CreatesTest's title path joins to
JoinedTest == LiveTest(OrdersFile, <<>>, <<"@", "smoke", SEP, "creates">>, Chromium)

\* the names of the live runs and of the report files the model draws from
LiveNames == {"retry", "single", "projects", "firefox", "joined"}
JsonNames == {"retry.json", "single.json", "projects.json", "firefox.json"}

\* the short runs and reports among them
ShortLiveNames == {"firefox", "joined"}
ShortJsonNames == {"firefox.json"}

\* the root Suite handed to onBegin
SuiteOf(name) ==
    CASE name = "retry" ->
           LiveSuite(<<>>, << LiveSuite(<<>>, << LiveSuite(<<ListsTest, DeletesTest>>,
                                                      << LiveSuite(<<CreatesTest>>, <<>>) >>) >>) >>)
      [] name = "single" ->
           LiveSuite(<<>>, << LiveSuite(<<>>, << LiveSuite(<<SlowTest, IdleTest>>, <<>>) >>) >>)
      [] name = "projects" ->
           LiveSuite(<<>>, << LiveSuite(<<>>, << LiveSuite(<<ListsTest>>, <<>>) >>),
                              LiveSuite(<<>>, << LiveSuite(<<ListsOnFirefox>>, <<>>) >>) >>)
      [] name = "firefox" ->
           LiveSuite(<<>>, << LiveSuite(<<>>, << LiveSuite(<<ListsOnFirefox>>, <<>>) >>) >>)
      [] name = "joined" ->
           LiveSuite(<<>>, << LiveSuite(<<>>, << LiveSuite(<<JoinedTest>>,
                                                      << LiveSuite(<<CreatesTest>>, <<>>) >>) >>) >>)
      [] name = "metrics" ->
           LiveSuite(<<>>, << LiveSuite(<<>>, << LiveSuite(<<SlowTest>>, <<>>) >>) >>)
      [] name = "pretty" ->
           LiveSuite(<<>>, << LiveSuite(<<>>, << LiveSuite(<<IdleTest>>, <<>>) >>) >>)
      [] name = "quiet" ->
           LiveSuite(<<>>, << LiveSuite(<<>>, << LiveSuite(<<SlowTest, IdleTest>>, <<>>) >>) >>)

\* the onTestEnd events of the run, in the order the runner reports them
EventsOf(name) ==
    CASE name = "retry" ->
           << Event(ListsTest, "passed", 0), Event(CreatesTest, "passed", 0),
              Event(DeletesTest, "failed", 0), Event(DeletesTest, "passed", 1) >>
      [] name = "single" ->
           << EventWithOutput(SlowTest, "timedOut", 0, << <<"starting">>, MetricsLine >>),
              Event(IdleTest, "skipped", 0) >>
      [] name = "projects" ->
           << Event(ListsTest, "passed", 0), Event(ListsOnFirefox, "failed", 0),
              Event(ListsOnFirefox, "failed", 1) >>
      [] name = "firefox" ->
           << EventWithOutput(ListsOnFirefox, "passed", 0, << MetricsLine >>) >>
      [] name = "joined" ->
           << Event(JoinedTest, "interrupted", 0), Event(CreatesTest, "passed", 0) >>
      [] name = "metrics" ->
           << EventWithOutput(SlowTest, "passed", 0, << <<"starting">>, MetricsLine >>) >>
      [] name = "pretty" ->
           << EventWithOutput(IdleTest, "passed", 0, << PrettyMetrics >>) >>
      [] name = "quiet" ->
           << EventWithOutput(SlowTest, "passed", 0, << <<"starting">> >>),
              EventWithOutput(IdleTest, "passed", 0, << <<"starting">>, BrokenMetrics >>) >>

\* FullResult.status handed to onEnd
OutcomeOf(name) ==
    CASE name = "retry" -> "passed"
      [] name = "single" -> "timedout"
      [] name = "projects" -> "failed"
      [] name = "firefox" -> "passed"
      [] name = "joined" -> "interrupted"
      [] name = "metrics" -> "passed"
      [] name = "pretty" -> "passed"
      [] name = "quiet" -> "passed"

\* the JSON report's Suite, Spec, Test and TestResult
JsonSuite(title, file, specs, suites) ==
    [title |-> title, file |-> file, specs |-> specs, suites |-> suites]

JsonSpec(title, file, tags, tests) == [title |-> title, file |-> file, tags |-> tags, tests |-> tests]

JsonTest(projectName, status, results) ==
    [projectName |-> projectName, status |-> status, results |-> results]

\* startTime is an ISO string (here the time value it denotes), duration is in tenths
\* of a ms
JsonResult(status, retry) ==
    [status |-> status, retry |-> retry, startTime |-> StartTime, duration |-> JsonDuration]

JsonStats(expected, unexpected, skipped, flaky) ==
    [expected |-> expected, unexpected |-> unexpected, skipped |-> skipped, flaky |-> flaky]

\* the tags the JSON reporter lists for the title "lists @smoke-fast": the text after
\* each '@' up to the next blank, where the reporter's regex stops at the '-'
ListsTags == << <<"smoke", "-", "fast">> >>

\* the report file the JSON reporter writes for the live run of the same name
ReportOf(name) ==
    CASE name = "retry.json" ->
           [stats |-> JsonStats(2, 0, 0, 1),
            suites |-> << JsonSuite(<<"orders.api.spec.ts">>, OrdersFile,
                 << JsonSpec(ListsTitle, OrdersFile, ListsTags,
                        << JsonTest(Chromium, "expected", << JsonResult("passed", 0) >>) >>),
                    JsonSpec(<<"deletes">>, OrdersFile, <<>>,
                        << JsonTest(Chromium, "flaky",
                               << JsonResult("failed", 0), JsonResult("passed", 1) >>) >>) >>,
                 << JsonSuite(<<"@", "smoke">>, OrdersFile,
                      << JsonSpec(<<"creates">>, OrdersFile, <<>>,
                             << JsonTest(Chromium, "expected", << JsonResult("passed", 0) >>) >>) >>,
                      <<>>) >>) >>]
      [] name = "single.json" ->
           [stats |-> JsonStats(0, 1, 1, 0),
            suites |-> << JsonSuite(<<"load.performance.spec.ts">>, LoadFile,
                 << JsonSpec(<<"slow">>, LoadFile, <<>>,
                        << JsonTest(<<>>, "unexpected", << JsonResult("timedOut", 0) >>) >>),
                    JsonSpec(<<"idle">>, LoadFile, <<>>,
                        << JsonTest(<<>>, "skipped", << JsonResult("skipped", 0) >>) >>) >>,
                 <<>>) >>]
      [] name = "projects.json" ->
           [stats |-> JsonStats(1, 1, 0, 0),
            suites |-> << JsonSuite(<<"orders.api.spec.ts">>, OrdersFile,
                 << JsonSpec(ListsTitle, OrdersFile, ListsTags,
                        << JsonTest(Chromium, "expected", << JsonResult("passed", 0) >>),
                           JsonTest(Firefox, "unexpected",
                               << JsonResult("failed", 0), JsonResult("failed", 1) >>) >>) >>,
                 <<>>) >>]
      [] name = "firefox.json" ->
           [stats |-> JsonStats(1, 0, 0, 0),
            suites |-> << JsonSuite(<<"orders.api.spec.ts">>, OrdersFile,
                 << JsonSpec(ListsTitle, OrdersFile, ListsTags,
                        << JsonTest(Firefox, "expected", << JsonResult("passed", 0) >>) >>) >>,
                 <<>>) >>]
      [] name = "nested.json" ->
           [stats |-> JsonStats(3, 2, 0, 0),
            suites |-> << JsonSuite(<<"orders.api.spec.ts">>, OrdersFile,
                 << JsonSpec(ListsTitle, OrdersFile, ListsTags,
                        << JsonTest(Chromium, "expected", << JsonResult("passed", 0) >>) >>) >>,
                 << JsonSuite(<<"@", "smoke">>, OrdersFile,
                      << JsonSpec(<<"creates">>, OrdersFile, <<>>,
                             << JsonTest(Chromium, "expected", << JsonResult("passed", 0) >>),
                                JsonTest(Firefox, "unexpected",
                                    << JsonResult("failed", 0), JsonResult("failed", 1) >>) >>) >>,
                      << JsonSuite(<<"deep">>, OrdersFile,
                           << JsonSpec(<<"deletes">>, OrdersFile, <<>>,
                                  << JsonTest(Chromium, "expected",
                                         << JsonResult("passed", 0) >>) >>) >>,
                           <<>>) >>) >>),
                          JsonSuite(<<"load.performance.spec.ts">>, LoadFile,
                 << JsonSpec(<<"slow">>, LoadFile, <<>>,
                        << JsonTest(<<>>, "unexpected", << JsonResult("timedOut", 0) >>) >>) >>,
                 <<>>) >>]
      [] name = "nostats.json" ->
           [suites |-> << JsonSuite(<<"orders.api.spec.ts">>, OrdersFile,
                 << JsonSpec(ListsTitle, OrdersFile, ListsTags,
                        << JsonTest(Firefox, "expected", << JsonResult("passed", 0) >>) >>) >>,
                 <<>>) >>]
      [] name = "nosuites.json" ->
           [stats |-> JsonStats(1, 0, 0, 0)]

\* the arguments the ingestion CLI is started with: none, the path of no file, and files
\* that hold text that is not JSON, a report without `stats`, a report without `suites`
\* and three whole reports, one with suites nested three deep
NoArgument == ""
AbsentNames == {"absent.json"}
CliJsonNames ==
    {"garbage.json", "nostats.json", "nosuites.json", "firefox.json", "single.json", "nested.json"}

\* JSON.parse accepts the text of the file
Parses(name) == name # "garbage.json"

(***************************************************************************)
(* State.                                                                  *)
(***************************************************************************)
VARIABLES
    test_runs,      \* table test_runs: a set of rows
    test_cases,     \* table test_cases: a set of rows
    test_results,   \* table test_results: the rows in insertion order, id = position
    case_seq,       \* the SERIAL sequence behind test_cases.id
    session,        \* processes started so far; also the coarse clock (CURRENT_TIMESTAMP, new Date())
    proc,           \* the running process: "idle", "reporter" or "ingester"
    scen,           \* its input: the name of the live run or of the report file
    runId,          \* this.runId
    pool,           \* this.pool: "null", "open" or "ended"
    pc,             \* where the process stands (see the actions)
    cursor,         \* reporter: onTestEnd events delivered; ingester: the query it awaits
    handlers,       \* reporter: the onTestEnd calls in flight
    testCases,      \* reporter: the Map this.testCases (test id -> numeric case id)
    stats,          \* reporter: the local `stats` of onEnd
    testCaseId,     \* ingester: the local `testCaseId` of processSpec
    faults,         \* queries rejected so far
    lost,           \* history: the events (reporter) or queries (ingester) of this process that threw
    resolved,       \* history: every case resolution, as <<file, title path, project, case id>>
    plan,           \* history: the inputs of the processes started so far
    env,            \* process.env: the settings of the environment, "" when unset
    exitCode,       \* the exit code of the last process that ended, -1 before
    message,        \* what the last process that failed printed with console.error
    files,          \* the file system: path -> content
    http,           \* the requests the TestDino endpoint has been sent, with their outcome
    test_metrics,   \* table test_metrics: the rows in insertion order
    config          \* agents: this.config (scen holds the answers typed so far)

dbVars == <<test_runs, test_cases, test_results, case_seq>>
procVars == <<session, proc, scen, runId, pool, pc, cursor, handlers, testCases, stats, testCaseId>>
histVars == <<faults, lost, resolved, plan>>
sysVars == <<env, exitCode, message, files, http, test_metrics, config>>
vars == <<dbVars, procVars, histVars, sysVars>>

NoStats == [passed |-> 0, failed |-> 0, skipped |-> 0, flaky |-> 0]

(***************************************************************************)
(* The database: what each statement of the two classes does to the tables *)
(* of schema.sql.                                                          *)
(***************************************************************************)
\* the four columns of UNIQUE KEY unique_test
SameTuple(row, v) ==
    /\ row.test_id = v.test_id
    /\ row.file_path = v.file_path
    /\ row.project_name = v.project_name
    /\ row.browser = v.browser

\* the same INSERT without its ON CONFLICT clause: every call inserts a row
UpsertCaseAlwaysInserts(cases, seq, v, now) ==
    [cases |-> cases \cup {[id |-> seq + 1, test_id |-> v.test_id, title |-> v.title,
                            file_path |-> v.file_path, project_name |-> v.project_name,
                            browser |-> v.browser, test_type |-> v.test_type, tags |-> v.tags,
                            created_at |-> now, updated_at |-> now]},
     seq |-> seq + 1,
     id |-> seq + 1]

\* INSERT INTO test_cases ... ON CONFLICT (test_id, file_path, project_name, browser)
\* DO UPDATE SET title = EXCLUDED.title, updated_at = CURRENT_TIMESTAMP RETURNING id.
\* The SERIAL default is evaluated before the conflict is detected, so a conflicting
\* call consumes a sequence value as well.
UpsertCase(cases, seq, v, now) ==
    LET hit == {row \in cases : SameTuple(row, v)}
    IN  IF hit # {}
        THEN LET old == CHOOSE row \in hit : TRUE
             IN  [cases |-> (cases \ {old}) \cup {[old EXCEPT !.title = v.title, !.updated_at = now]},
                  seq |-> seq + 1,
                  id |-> old.id]
        ELSE [cases |-> cases \cup {[id |-> seq + 1, test_id |-> v.test_id, title |-> v.title,
                                     file_path |-> v.file_path, project_name |-> v.project_name,
                                     browser |-> v.browser, test_type |-> v.test_type,
                                     tags |-> v.tags, created_at |-> now, updated_at |-> now]},
              seq |-> seq + 1,
              id |-> seq + 1]

\* INSERT INTO test_runs (..., status, total_tests) VALUES (..., 'running', total);
\* the counts take the DEFAULT 0 of the schema and finished_at stays NULL (<<>>)
InsertRun(runs, id, provider, total, now) ==
    runs \cup {[run_id |-> id, ci_provider |-> provider, status |-> "running", total_tests |-> total,
                passed_tests |-> 0, failed_tests |-> 0, skipped_tests |-> 0, flaky_tests |-> 0,
                started_at |-> now, finished_at |-> <<>>]}

\* the same UPDATE without its WHERE clause: every row is updated
UpdateRunEveryRow(runs, id, status, counts, now) ==
    {[row EXCEPT !.finished_at = <<now>>, !.status = status,
                 !.passed_tests = counts.passed, !.failed_tests = counts.failed,
                 !.skipped_tests = counts.skipped, !.flaky_tests = counts.flaky] : row \in runs}

\* UPDATE test_runs SET finished_at, duration_ms, status, passed_tests, failed_tests,
\* skipped_tests, flaky_tests WHERE run_id = $8
UpdateRun(runs, id, status, counts, now) ==
    {IF row.run_id = id
     THEN [row EXCEPT !.finished_at = <<now>>, !.status = status,
                      !.passed_tests = counts.passed, !.failed_tests = counts.failed,
                      !.skipped_tests = counts.skipped, !.flaky_tests = counts.flaky]
     ELSE row : row \in runs}

\* INSERT INTO test_results (run_id, test_case_id, status, duration_ms, retry_count, ...,
\* started_at, finished_at); `src` is not a column: it records which event or query wrote
\* the row
InsertResult(results, run, caseId, status, retry, src, timing) ==
    Append(results, [id |-> Len(results) + 1, run_id |-> run, test_case_id |-> caseId,
                     status |-> status, retry_count |-> retry, src |-> src,
                     duration_ms |-> timing.duration_ms, started_at |-> timing.started_at,
                     finished_at |-> timing.finished_at])

\* Math.round of a number of tenths
MathRound(tenths) == (tenths + 5) \div 10

\* Date.prototype.toString(): the text of a Date carries whole seconds only
DateText(ms) == <<"date", ms \div 1000>>

\* `date + number`: the Date becomes its text and the number is appended to it
PlusNumber(ms, n) == DateText(ms) \o <<n>>

\* new Date(text) of a date text followed by digits: the parser reads the date it starts
\* with and drops the number that trails it
DateParse(text) == text[2] * 1000

\* the duration and the timestamps DatabaseReporter.insertTestResult sends:
\* result.duration, new Date(result.startTime), new Date(result.startTime + result.duration)
ReporterTiming(result) ==
    [duration_ms |-> result.duration,
     started_at |-> result.startTime,
     finished_at |-> DateParse(PlusNumber(result.startTime, result.duration))]

\* the duration and the timestamps ResultsIngester.insertTestResult sends
IngesterTiming(result) ==
    LET startedAt == result.startTime
        durationMs == MathRound(result.duration)
    IN  [duration_ms |-> durationMs, started_at |-> startedAt, finished_at |-> startedAt + durationMs]

\* FOREIGN KEY (test_case_id) REFERENCES test_cases(id): the only foreign key of test_results
CaseExists(cases, caseId) == \E row \in cases : row.id = caseId

\* result.stdout?.map(s => s.toString()).join('\n') || ''
JoinLines(chunks) == JoinWith(chunks, "\n")

\* stdout.match(/Performance Metrics: ({.*})/): the capture of the first match, <<>>
\* when nothing matches.  `.` stops at a line break and `.*` is greedy, so the capture
\* runs from the brace after the marker to the last closing brace of that line.
MetricsMatch(text) ==
    LET lineEnd(i) == IF \E n \in i..Len(text) : text[n] = "\n"
                      THEN (CHOOSE n \in i..Len(text) :
                               text[n] = "\n" /\ \A o \in i..(n - 1) : text[o] # "\n") - 1
                      ELSE Len(text)
        closes(i) == {j \in (i + 2)..lineEnd(i) : text[j] = "}"}
        starts == {i \in 1..(Len(text) - 2) :
                      text[i] = Marker /\ text[i + 1] = "{" /\ closes(i) # {}}
    IN  IF starts = {} THEN <<>>
        ELSE LET i == CHOOSE a \in starts : \A b \in starts : a <= b
                 j == CHOOSE a \in closes(i) : \A b \in closes(i) : a >= b
             IN  SubSeq(text, i + 1, j)

\* JSON.parse of the capture: the entries of a flat object, or a SyntaxError
ParseObject(tokens) ==
    LET inner == SubSeq(tokens, 2, Len(tokens) - 1)
        n == (Len(inner) + 1) \div 4
        wellFormed ==
            /\ Len(tokens) >= 2 /\ tokens[1] = "{" /\ tokens[Len(tokens)] = "}"
            /\ Len(inner) = 0 \/ Len(inner) = 4 * n - 1
            /\ \A g \in 1..n :
                   /\ inner[4 * g - 3] \in StringTokens
                   /\ inner[4 * g - 2] = ":"
                   /\ inner[4 * g - 1] \in StringTokens \cup NumberTokens
                   /\ g < n => inner[4 * g] = ","
    IN  IF wellFormed
        THEN [ok |-> TRUE, entries |-> [g \in 1..n |-> <<inner[4 * g - 3], inner[4 * g - 1]>>]]
        ELSE [ok |-> FALSE, entries |-> <<>>]

\* the same loop without its typeof check
AnyEntries(entries) == entries

\* the entries the loop of insertPerformanceMetrics inserts: typeof value === 'number'
NumericEntries(entries) == SelectSeq(entries, LAMBDA e : e[2] \in NumberTokens)

\* an insertPerformanceMetrics that takes the first `key: number` it finds in stdout,
\* whether or not the marker is there and the object parses
MetricsOfAnyText(result) ==
    LET text == JoinLines(result.stdout)
        hits == {i \in 1..(Len(text) - 2) :
                    text[i] \in StringTokens /\ text[i + 1] = ":" /\ text[i + 2] \in NumberTokens}
    IN  IF hits = {} THEN <<>>
        ELSE LET i == CHOOSE a \in hits : \A b \in hits : a <= b
             IN  << <<text[i], text[i + 2]>> >>

\* the metrics insertPerformanceMetrics inserts for a result, in order
MetricsOf(result) ==
    LET capture == MetricsMatch(JoinLines(result.stdout))
    IN  IF capture = <<>> THEN <<>>
        ELSE IF ParseObject(capture).ok THEN NumericEntries(ParseObject(capture).entries)
        ELSE <<>>

\* INSERT INTO test_metrics (test_result_id, metric_name, metric_value, metric_unit)
InsertMetric(metrics, resultId, entry) ==
    Append(metrics, [id |-> Len(metrics) + 1, test_result_id |-> resultId,
                     metric_name |-> entry[1], metric_value |-> entry[2], metric_unit |-> "ms"])

\* SELECT status, COUNT(*) as count FROM test_results WHERE run_id = $1 GROUP BY status
GroupByStatus(results, run) ==
    LET mine == {i \in DOMAIN results : results[i].run_id = run}
    IN  {[status |-> st, count |-> Cardinality({i \in mine : results[i].status = st})] :
            st \in {results[i].status : i \in mine}}

\* the loop of getRunStats over the grouped rows
getRunStats(results, run) ==
    LET rows == GroupByStatus(results, run)
        countOf(st) == IF \E row \in rows : row.status = st
                       THEN (CHOOSE row \in rows : row.status = st).count
                       ELSE 0
    IN  [passed |-> countOf("passed"), failed |-> countOf("failed"),
         skipped |-> countOf("skipped"), flaky |-> countOf("flaky")]

RECURSIVE countTests(_)
\* DatabaseReporter.countTests: the tests of the whole Suite tree
countTests(suite) ==
    LET RECURSIVE sum(_)
        sum(children) == IF children = <<>> THEN 0
                         ELSE countTests(Head(children)) + sum(Tail(children))
    IN  sum(suite.suites) + Len(suite.tests)

\* the values DatabaseReporter.insertTestCase sends
ReporterCaseValues(test) ==
    [test_id |-> ReporterTestId(test),
     title |-> test.title,
     file_path |-> test.file,
     project_name |-> OrElse(test.project, <<"default">>),
     browser |-> OrElse(test.project, <<"chromium">>),
     test_type |-> inferTestType(test.file),
     tags |-> extractTags(test.title)]

\* the values ResultsIngester.insertTestCase sends
IngesterCaseValues(spec) ==
    LET projectName == OrElse(IF Len(spec.tests) > 0 THEN spec.tests[1].projectName ELSE <<>>,
                              <<"default">>)
    IN  [test_id |-> IngesterTestId(spec.file, spec.title),
         title |-> spec.title,
         file_path |-> spec.file,
         project_name |-> projectName,
         browser |-> projectName,
         test_type |-> inferTestType(spec.file),
         tags |-> OrElse(JoinWith(spec.tags, ","), <<>>)]

\* the status onEnd writes
ReporterRunStatus(outcome) == IF outcome = "passed" THEN "completed" ELSE "failed"

\* the counts updateTestRunStats writes: the report's own stats
IngesterCounts(report) ==
    [passed |-> report.stats.expected, failed |-> report.stats.unexpected,
     skipped |-> report.stats.skipped, flaky |-> report.stats.flaky]

\* the total_tests ResultsIngester.createTestRun writes
IngesterTotal(report) == report.stats.expected + report.stats.unexpected + report.stats.skipped

(***************************************************************************)
(* The walk of ResultsIngester over the report, as the list of queries it  *)
(* issues one after the other.                                             *)
(***************************************************************************)
Query(op, spec, ti, ri) == [op |-> op, spec |-> spec, ti |-> ti, ri |-> ri]

NoSpec == JsonSpec(<<>>, <<>>, <<>>, <<>>)

\* processSpec: the case upsert, then one insert per result of each test
processSpec(spec) ==
    LET RECURSIVE results(_, _)
        results(ti, ri) ==
            IF ti > Len(spec.tests) THEN <<>>
            ELSE IF ri > Len(spec.tests[ti].results) THEN results(ti + 1, 1)
            ELSE <<Query("result", spec, ti, ri)>> \o results(ti, ri + 1)
    IN  <<Query("case", spec, 0, 0)>> \o results(1, 1)

\* a processSuite that does not descend into the child suites
processOwnSpecs(suite) ==
    LET RECURSIVE specs(_)
        specs(list) == IF list = <<>> THEN <<>> ELSE processSpec(Head(list)) \o specs(Tail(list))
    IN  specs(suite.specs)

RECURSIVE processSuite(_)
\* processSuite: the specs of the suite, then its child suites
processSuite(suite) ==
    LET RECURSIVE specs(_)
        specs(list) == IF list = <<>> THEN <<>> ELSE processSpec(Head(list)) \o specs(Tail(list))
        RECURSIVE children(_)
        children(list) == IF list = <<>> THEN <<>> ELSE processSuite(Head(list)) \o children(Tail(list))
    IN  specs(suite.specs) \o children(suite.suites)

\* the body of the try block of ingest; `suites` stands for the for-of over a
\* report.suites that is undefined
IngestQueries(report) ==
    LET RECURSIVE all(_)
        all(list) == IF list = <<>> THEN <<>> ELSE processSuite(Head(list)) \o all(Tail(list))
    IN  IF "suites" \in DOMAIN report
        THEN <<Query("run", NoSpec, 0, 0)>> \o all(report.suites) \o <<Query("stats", NoSpec, 0, 0)>>
        ELSE <<Query("run", NoSpec, 0, 0), Query("suites", NoSpec, 0, 0)>>

(***************************************************************************)
(* The environment and the configuration read from it                      *)
(* (config/aggregation.config.ts).  An unset variable is <<>>.             *)
(***************************************************************************)
Unset == <<>>

\* no setting at all
NoEnv ==
    [DB_HOST |-> Unset, DB_NAME |-> Unset, DB_USER |-> Unset, DB_PASSWORD |-> Unset,
     TESTDINO_API_KEY |-> Unset, TESTDINO_PROJECT_ID |-> Unset, TESTDINO_ENDPOINT |-> Unset,
     CI_PROVIDER |-> Unset, GITHUB_ACTIONS |-> Unset]

\* the settings of the database path
DbEnv ==
    [NoEnv EXCEPT !.DB_HOST = <<"db.internal">>, !.DB_NAME = <<"results">>,
                  !.DB_USER = <<"ci">>, !.DB_PASSWORD = <<"secret">>]

\* the settings of the TestDino path
DinoEnv == [NoEnv EXCEPT !.TESTDINO_API_KEY = <<"key">>, !.TESTDINO_PROJECT_ID = <<"project">>]

\* an API key without a project id
KeyOnlyEnv == [NoEnv EXCEPT !.TESTDINO_API_KEY = <<"key">>]

Envs == {NoEnv, DbEnv, DinoEnv, KeyOnlyEnv}

\* the settings of the database path on a CI server, with and without GitHub Actions
CiEnvs ==
    {[DbEnv EXCEPT !.CI_PROVIDER = provider, !.GITHUB_ACTIONS = actions] :
        provider \in {Unset, <<"jenkins">>}, actions \in {Unset, <<"true">>}}

\* DatabaseReporter.createTestRun:
\*   process.env.CI_PROVIDER || process.env.GITHUB_ACTIONS ? 'github' : 'local'
\* where || binds tighter than ?:
ReporterCiProvider(e) ==
    IF OrElse(e.CI_PROVIDER, e.GITHUB_ACTIONS) # <<>> THEN <<"github">> ELSE <<"local">>

\* ResultsIngester.createTestRun:
\*   process.env.CI_PROVIDER || (process.env.GITHUB_ACTIONS ? 'github' : 'local')
IngesterCiProvider(e) ==
    OrElse(e.CI_PROVIDER, IF e.GITHUB_ACTIONS # <<>> THEN <<"github">> ELSE <<"local">>)

\* defaultConfig: every member is an object, each field falls back to a default
defaultConfig(e) ==
    [database |-> [host |-> OrElse(e.DB_HOST, <<"localhost">>),
                   database |-> OrElse(e.DB_NAME, <<"playwright_results">>),
                   username |-> OrElse(e.DB_USER, <<"postgres">>),
                   password |-> OrElse(e.DB_PASSWORD, <<>>)],
     testdino |-> [apiKey |-> OrElse(e.TESTDINO_API_KEY, <<>>),
                   projectId |-> OrElse(e.TESTDINO_PROJECT_ID, <<>>),
                   uploadEndpoint |-> e.TESTDINO_ENDPOINT]]

getAggregationConfig == defaultConfig(env)

\* `!x` on an optional member of the configuration: the member is undefined
Missing(object, member) == member \notin DOMAIN object

\* `!x` on a string: the empty string is falsy
Empty(text) == text = <<>>

(***************************************************************************)
(* Initial state: an empty database, an empty working directory and no     *)
(* process.                                                                *)
(***************************************************************************)
NoFiles == <<>>

\* no agent is running
NoConfig == <<>>

StartIn(e, fs) ==
    /\ env = e
    /\ exitCode = -1
    /\ message = <<>>
    /\ files = fs
    /\ config = NoConfig
    /\ http = <<>>
    /\ test_metrics = <<>>
    /\ test_runs = {}
    /\ test_cases = {}
    /\ test_results = <<>>
    /\ case_seq = 0
    /\ session = 0
    /\ proc = "idle"
    /\ scen = ""
    /\ runId = 0
    /\ pool = "null"
    /\ pc = "none"
    /\ cursor = 0
    /\ handlers = {}
    /\ testCases = <<>>
    /\ stats = NoStats
    /\ testCaseId = 0
    /\ faults = 0
    /\ lost = {}
    /\ resolved = {}
    /\ plan = <<>>

\* an empty working directory
Start(e) == StartIn(e, NoFiles)

\* the environment holds the settings of the database path
Init == Start(DbEnv)

\* any environment
InitAnyEnv == \E e \in Envs : Start(e)

\* a query that the database rejects: a transient connection error
Reject ==
    /\ faults < MaxFaults
    /\ faults' = faults + 1

\* generateRunId(): `${Date.now()}-${randomBytes(8)}`, modelled as never repeating
generateRunId == session + 1

\* the constructor of either class: it throws when the configuration has no `database`
\* member, else a fresh run id, no pool, an empty cache
Construct(kind, name) ==
    /\ proc = "idle"
    /\ ~Missing(getAggregationConfig, "database")
    /\ session < MaxSessions
    /\ session' = session + 1
    /\ proc' = kind
    /\ scen' = name
    /\ runId' = generateRunId
    /\ pool' = "null"
    /\ pc' = "new"
    /\ cursor' = 0
    /\ handlers' = {}
    /\ testCases' = <<>>
    /\ stats' = NoStats
    /\ testCaseId' = 0
    /\ lost' = {}
    /\ plan' = Append(plan, name)
    /\ UNCHANGED <<sysVars, dbVars, faults, resolved>>

(***************************************************************************)
(* DatabaseReporter.                                                       *)
(***************************************************************************)
NewReporter == \E name \in LiveNames : Construct("reporter", name)

NewShortReporter == \E name \in ShortLiveNames : Construct("reporter", name)

\* onBegin: initializeDatabase() sets the pool, createTestRun() inserts the run row
OnBegin ==
    /\ proc = "reporter" /\ pc = "new"
    /\ pool' = "open"
    /\ pc' = "begun"
    /\ test_runs' = InsertRun(test_runs, runId, ReporterCiProvider(env), countTests(SuiteOf(scen)), session)
    /\ UNCHANGED <<sysVars, test_cases, test_results, case_seq, session, proc, scen, runId, cursor,
                   handlers, testCases, stats, testCaseId, histVars>>

\* onBegin when the INSERT of createTestRun is rejected: onBegin rejects, the pool
\* stays set, and the runner goes on to report the tests
OnBeginRejected ==
    /\ proc = "reporter" /\ pc = "new"
    /\ Reject
    /\ pool' = "open"
    /\ pc' = "begun"
    /\ UNCHANGED <<sysVars, dbVars, session, proc, scen, runId, cursor, handlers, testCases, stats,
                   testCaseId, lost, resolved, plan>>

Resolution(test, id) == <<test.file, test.titlePath, test.project, id>>

\* an onTestEnd that does not await insertTestCase before it calls insertTestResult
HandlerAtInsert(k, at, caseId) ==
    [k |-> k, at |-> "insert", caseId |-> caseId, resultId |-> 0, m |-> 0]

\* an onTestEnd call in flight: its event, the query it awaits, its locals testCaseId and
\* resultId, and the metric it is inserting
Handler(k, at, caseId) == [k |-> k, at |-> at, caseId |-> caseId, resultId |-> 0, m |-> 0]

\* onTestEnd(test, result) up to its first await on the database: insertTestCase
\* answers from the cache (and insertTestResult issues its INSERT), or issues the upsert
OnTestEnd ==
    /\ proc = "reporter" /\ pc = "begun"
    /\ cursor < Len(EventsOf(scen))
    /\ Cardinality(handlers) < MaxInFlight
    /\ LET k == cursor + 1
           test == EventsOf(scen)[k].test
           testId == ReporterTestId(test)
       IN  /\ cursor' = k
           /\ IF testId \in DOMAIN testCases
              THEN /\ handlers' = handlers \cup {Handler(k, "insert", testCases[testId])}
                   /\ resolved' = resolved \cup {Resolution(test, testCases[testId])}
              ELSE /\ handlers' = handlers \cup {Handler(k, "upsert", 0)}
                   /\ UNCHANGED resolved
    /\ UNCHANGED <<sysVars, dbVars, session, proc, scen, runId, pool, pc, testCases, stats, testCaseId,
                   faults, lost, plan>>

\* the upsert of insertTestCase returns: the id is cached, and insertTestResult issues
\* its INSERT, which a pool that onEnd has ended in the meantime refuses
UpsertReturns(h) ==
    /\ proc = "reporter" /\ h \in handlers /\ h.at = "upsert"
    /\ LET test == EventsOf(scen)[h.k].test
           up == UpsertCase(test_cases, case_seq, ReporterCaseValues(test), session)
       IN  /\ test_cases' = up.cases
           /\ case_seq' = up.seq
           /\ testCases' = (ReporterTestId(test) :> up.id) @@ testCases
           /\ resolved' = resolved \cup {Resolution(test, up.id)}
           /\ IF pool = "ended"
              THEN /\ handlers' = handlers \ {h}
                   /\ lost' = lost \cup {h.k}
              ELSE /\ handlers' = (handlers \ {h}) \cup {[h EXCEPT !.at = "insert", !.caseId = up.id]}
                   /\ UNCHANGED lost
    /\ UNCHANGED <<sysVars, test_runs, test_results, session, proc, scen, runId, pool, pc, cursor, stats,
                   testCaseId, faults, plan>>

\* the upsert is rejected: the catch of onTestEnd logs the error and the result is dropped
UpsertRejected(h) ==
    /\ proc = "reporter" /\ h \in handlers /\ h.at = "upsert"
    /\ Reject
    /\ handlers' = handlers \ {h}
    /\ lost' = lost \cup {h.k}
    /\ UNCHANGED <<sysVars, dbVars, session, proc, scen, runId, pool, pc, cursor, testCases, stats, testCaseId, resolved, plan>>

\* the INSERT of insertTestResult returns; for a test of type performance whose stdout
\* holds metrics, insertPerformanceMetrics issues its first INSERT, which a pool that
\* onEnd has ended in the meantime refuses (its catch logs the error); else onTestEnd is done
InsertReturns(h) ==
    /\ proc = "reporter" /\ h \in handlers /\ h.at = "insert"
    /\ LET e == EventsOf(scen)[h.k]
       IN  IF CaseExists(test_cases, h.caseId)
           THEN /\ test_results' = InsertResult(test_results, runId, h.caseId, e.status, e.retry, h.k,
                                                 ReporterTiming(e))
                /\ UNCHANGED lost
                /\ IF /\ inferTestType(e.test.file) = "performance"
                      /\ MetricsOf(e) # <<>>
                      /\ pool # "ended"
                   THEN handlers' = (handlers \ {h}) \cup
                            {[h EXCEPT !.at = "metric", !.resultId = Len(test_results) + 1, !.m = 1]}
                   ELSE handlers' = handlers \ {h}
           ELSE /\ lost' = lost \cup {h.k}
                /\ UNCHANGED test_results
                /\ handlers' = handlers \ {h}
    /\ UNCHANGED <<sysVars, test_runs, test_cases, case_seq, session, proc, scen, runId, pool, pc, cursor, testCases, stats, testCaseId, faults, resolved, plan>>

\* the INSERT is rejected: the catch of onTestEnd logs the error
InsertRejected(h) ==
    /\ proc = "reporter" /\ h \in handlers /\ h.at = "insert"
    /\ Reject
    /\ handlers' = handlers \ {h}
    /\ lost' = lost \cup {h.k}
    /\ UNCHANGED <<sysVars, dbVars, session, proc, scen, runId, pool, pc, cursor, testCases, stats, testCaseId, resolved, plan>>

\* an INSERT of insertPerformanceMetrics returns: the loop issues the next one, which an
\* ended pool refuses, or is done
MetricReturns(h) ==
    /\ proc = "reporter" /\ h \in handlers /\ h.at = "metric"
    /\ LET metrics == MetricsOf(EventsOf(scen)[h.k])
       IN  /\ test_metrics' = InsertMetric(test_metrics, h.resultId, metrics[h.m])
           /\ IF h.m < Len(metrics) /\ pool # "ended"
              THEN handlers' = (handlers \ {h}) \cup {[h EXCEPT !.m = h.m + 1]}
              ELSE handlers' = handlers \ {h}
    /\ UNCHANGED <<dbVars, session, proc, scen, runId, pool, pc, cursor, testCases, stats,
                   testCaseId, histVars, env, exitCode, message, files, config, http>>

\* an INSERT of insertPerformanceMetrics is rejected: its catch logs the error and the
\* metrics that remain are not inserted
MetricRejected(h) ==
    /\ proc = "reporter" /\ h \in handlers /\ h.at = "metric"
    /\ Reject
    /\ handlers' = handlers \ {h}
    /\ UNCHANGED <<dbVars, session, proc, scen, runId, pool, pc, cursor, testCases, stats,
                   testCaseId, lost, resolved, plan, sysVars>>

\* onEnd(result) is called once every test has been reported; getRunStats issues its SELECT
OnEnd ==
    /\ proc = "reporter" /\ pc = "begun"
    /\ cursor = Len(EventsOf(scen))
    /\ pc' = "stats"
    /\ UNCHANGED <<sysVars, dbVars, session, proc, scen, runId, pool, cursor, handlers, testCases, stats,
                   testCaseId, histVars>>

\* the SELECT of getRunStats returns and onEnd issues its UPDATE
StatsReturn ==
    /\ proc = "reporter" /\ pc = "stats"
    /\ stats' = getRunStats(test_results, runId)
    /\ pc' = "update"
    /\ UNCHANGED <<sysVars, dbVars, session, proc, scen, runId, pool, cursor, handlers, testCases,
                   testCaseId, histVars>>

\* the UPDATE returns and closeDatabase() ends the pool
UpdateReturns ==
    /\ proc = "reporter" /\ pc = "update"
    /\ test_runs' = UpdateRun(test_runs, runId, ReporterRunStatus(OutcomeOf(scen)), stats, session)
    /\ pool' = "ended"
    /\ pc' = "ended"
    /\ UNCHANGED <<sysVars, test_cases, test_results, case_seq, session, proc, scen, runId, cursor,
                   handlers, testCases, stats, testCaseId, histVars>>

\* the SELECT or the UPDATE of onEnd is rejected: onEnd rejects before closeDatabase()
OnEndRejected ==
    /\ proc = "reporter" /\ pc \in {"stats", "update"}
    /\ Reject
    /\ pc' = "rejected"
    /\ UNCHANGED <<sysVars, dbVars, session, proc, scen, runId, pool, cursor, handlers, testCases, stats,
                   testCaseId, lost, resolved, plan>>

(***************************************************************************)
(* ResultsIngester.                                                        *)
(***************************************************************************)
NewIngester == \E name \in JsonNames : Construct("ingester", name)

NewShortIngester == \E name \in ShortJsonNames : Construct("ingester", name)

\* the catch of the CLI: console.error('Error ingesting results:', error)
Caught(error) == <<"Error ingesting results:">> \o error

\* the message of the TypeError of reading a property of undefined
ReadOfUndefined(property) ==
    <<"TypeError: ", "Cannot read properties of undefined (reading '", property, "')">>

\* the message of the TypeError of a for-of over undefined
NotIterable(expr) == <<"TypeError: ">> \o expr \o <<" is not iterable">>

\* ingest(jsonPath) up to its first query: the file is read and parsed,
\* initializeDatabase() sets the pool and createTestRun issues its INSERT
Ingest ==
    /\ proc = "ingester" /\ pc = "new"
    /\ Parses(scen)
    /\ pool' = "open"
    /\ pc' = "ingest"
    /\ cursor' = 1
    /\ UNCHANGED <<sysVars, dbVars, session, proc, scen, runId, handlers, testCases, stats, testCaseId,
                   histVars>>

\* the query ingest awaits
Awaited == IngestQueries(ReportOf(scen))[cursor]

Awaiting(op) ==
    /\ proc = "ingester" /\ pc = "ingest"
    /\ Awaited.op = op

\* createTestRun: the INSERT of the run row returns
IngestCreateRun ==
    /\ Awaiting("run")
    /\ "stats" \in DOMAIN ReportOf(scen)
    /\ test_runs' = InsertRun(test_runs, runId, IngesterCiProvider(env), IngesterTotal(ReportOf(scen)),
                                 session)
    /\ cursor' = cursor + 1
    /\ UNCHANGED <<sysVars, test_cases, test_results, case_seq, session, proc, scen, runId, pool, pc,
                   handlers, testCases, stats, testCaseId, histVars>>

\* processSpec: the upsert of insertTestCase returns the case id
IngestCase ==
    /\ Awaiting("case")
    /\ LET spec == Awaited.spec
           up == UpsertCase(test_cases, case_seq, IngesterCaseValues(spec), session)
       IN  /\ test_cases' = up.cases
           /\ case_seq' = up.seq
           /\ testCaseId' = up.id
           /\ resolved' = resolved \cup
                  {<<spec.file, <<spec.title>>,
                     IF Len(spec.tests) > 0 THEN spec.tests[1].projectName ELSE <<>>, up.id>>}
    /\ cursor' = cursor + 1
    /\ UNCHANGED <<sysVars, test_runs, test_results, session, proc, scen, runId, pool, pc, handlers,
                   testCases, stats, faults, lost, plan>>

\* processSpec: the INSERT of insertTestResult returns
IngestResult ==
    /\ Awaiting("result")
    /\ CaseExists(test_cases, testCaseId)
    /\ LET result == Awaited.spec.tests[Awaited.ti].results[Awaited.ri]
       IN  test_results' = InsertResult(test_results, runId, testCaseId, result.status,
                                        result.retry, cursor, IngesterTiming(result))
    /\ cursor' = cursor + 1
    /\ UNCHANGED <<sysVars, test_runs, test_cases, case_seq, session, proc, scen, runId, pool, pc,
                   handlers, testCases, stats, testCaseId, histVars>>

\* updateTestRunStats: the UPDATE returns, then the finally block ends the pool
IngestStats ==
    /\ Awaiting("stats")
    /\ test_runs' = UpdateRun(test_runs, runId, "completed", IngesterCounts(ReportOf(scen)), session)
    /\ pool' = "ended"
    /\ pc' = "done"
    /\ UNCHANGED <<sysVars, test_cases, test_results, case_seq, session, proc, scen, runId, cursor,
                   handlers, testCases, stats, testCaseId, histVars>>

\* any query of the try block is rejected: the exception leaves ingest through the
\* finally block, which ends the pool
IngestRejected ==
    /\ proc = "ingester" /\ pc = "ingest"
    /\ Awaited.op # "suites"
    /\ Awaited.op = "run" => "stats" \in DOMAIN ReportOf(scen)
    /\ Reject
    /\ lost' = lost \cup {cursor}
    /\ pool' = "ended"
    /\ pc' = "failed"
    /\ message' = Caught(<<"Error: ", "the database rejected the query">>)
    /\ UNCHANGED <<dbVars, session, proc, scen, runId, cursor, handlers, testCases, stats,
                   testCaseId, resolved, plan, env, exitCode, files, config, http, test_metrics>>

\* JSON.parse throws on the text of the file: ingest rejects before initializeDatabase
IngestUnparsable ==
    /\ proc = "ingester" /\ pc = "new"
    /\ ~Parses(scen)
    /\ pc' = "failed"
    /\ message' = Caught(<<"SyntaxError: ", "Unexpected token">>)
    /\ UNCHANGED <<dbVars, session, proc, scen, runId, pool, cursor, handlers, testCases, stats,
                   testCaseId, histVars, env, exitCode, files, config, http, test_metrics>>

\* createTestRun reads report.stats.startTime of a report without `stats`: the TypeError
\* leaves ingest through the finally block
IngestMalformed ==
    /\ Awaiting("run")
    /\ "stats" \notin DOMAIN ReportOf(scen)
    /\ pool' = "ended"
    /\ pc' = "failed"
    /\ message' = Caught(ReadOfUndefined("startTime"))
    /\ UNCHANGED <<dbVars, session, proc, scen, runId, cursor, handlers, testCases, stats,
                   testCaseId, histVars, env, exitCode, files, config, http, test_metrics>>

\* `for (const suite of report.suites)` of a report without `suites`: the TypeError the
\* build produces (a native for-of, or the indexed loop of a down-levelled one)
IngestNotIterable ==
    /\ Awaiting("suites")
    /\ pool' = "ended"
    /\ pc' = "failed"
    /\ \E text \in {NotIterable(<<"report", ".", "suites">>), ReadOfUndefined("length")} :
          message' = Caught(text)
    /\ UNCHANGED <<dbVars, session, proc, scen, runId, cursor, handlers, testCases, stats,
                   testCaseId, histVars, env, exitCode, files, config, http, test_metrics>>

(***************************************************************************)
(* TestDinoReporter.                                                       *)
(***************************************************************************)
\* the live runs the TestDino reporter is handed
DinoNames == LiveNames

\* path.join(process.cwd(), 'test-results', 'testdino-results.json')
outputPath == "test-results/testdino-results.json"

\* JSON.stringify(value, null, indent): the text of the value at that indentation
stringify(value, indent) == [json |-> value, indent |-> indent]

\* TestDinoReporter.getTestId
DinoTestId(test) == md5(test.file \o <<"::">> \o JoinWith(test.titlePath, SEP))

\* the TestDinoTest that onTestEnd pushes
TestDinoTest(e) ==
    [id |-> DinoTestId(e.test), title |-> JoinWith(e.test.titlePath, SEP), file |-> e.test.file,
     status |-> e.status, retries |-> e.retry]

\* the TestDinoResult that onEnd builds from this.tests
TestDinoResult ==
    [projectId |-> getAggregationConfig.testdino.projectId,
     runId |-> runId,
     status |-> OutcomeOf(scen),
     tests |-> [k \in 1..cursor |-> TestDinoTest(EventsOf(scen)[k])]]

\* the same onEnd with saveResults left out
saveResultsNowhere(fs, result) == fs

\* saveResults: fs.writeFileSync(this.outputPath, JSON.stringify(result, null, 2))
saveResults(fs, result) == (outputPath :> stringify(result, 2)) @@ fs

\* the POST of uploadResults, as the endpoint is sent it
Upload(result, status) == [run |-> result.runId, body |-> stringify(result, 0), status |-> status]

\* the constructor's checks: a `testdino` member with an API key and a project id
DinoConfigured ==
    /\ ~Missing(getAggregationConfig, "testdino")
    /\ ~Empty(getAggregationConfig.testdino.apiKey)
    /\ ~Empty(getAggregationConfig.testdino.projectId)

\* the constructor
NewTestDino ==
    /\ proc = "idle"
    /\ session < MaxSessions
    /\ DinoConfigured
    /\ \E name \in DinoNames :
          /\ scen' = name
          /\ plan' = Append(plan, name)
    /\ session' = session + 1
    /\ proc' = "testdino"
    /\ runId' = generateRunId
    /\ pc' = "new"
    /\ cursor' = 0
    /\ UNCHANGED <<dbVars, pool, handlers, testCases, stats, testCaseId, faults, lost, resolved, sysVars>>

\* the constructor throws: no reporter exists and the runner reports the error
NewTestDinoThrows ==
    /\ proc = "idle"
    /\ session < MaxSessions
    /\ ~DinoConfigured
    /\ session' = session + 1
    /\ plan' = Append(plan, "none")
    /\ message' = <<"TestDino API key and project ID are required">>
    /\ UNCHANGED <<dbVars, proc, scen, runId, pool, pc, cursor, handlers, testCases, stats,
                   testCaseId, faults, lost, resolved, env, exitCode, files, config, http, test_metrics>>

\* onBegin records the start time
DinoOnBegin ==
    /\ proc = "testdino" /\ pc = "new"
    /\ pc' = "begun"
    /\ UNCHANGED <<dbVars, session, proc, scen, runId, pool, cursor, handlers, testCases, stats,
                   testCaseId, histVars, sysVars>>

\* onTestEnd pushes the test onto this.tests; it awaits nothing
DinoOnTestEnd ==
    /\ proc = "testdino" /\ pc = "begun"
    /\ cursor < Len(EventsOf(scen))
    /\ cursor' = cursor + 1
    /\ UNCHANGED <<dbVars, session, proc, scen, runId, pool, pc, handlers, testCases, stats,
                   testCaseId, histVars, sysVars>>

\* onEnd up to the await of fetch: saveResults writes the file, uploadResults sends the POST
DinoOnEnd ==
    /\ proc = "testdino" /\ pc = "begun"
    /\ cursor = Len(EventsOf(scen))
    /\ files' = saveResults(files, TestDinoResult)
    /\ http' = Append(http, Upload(TestDinoResult, "pending"))
    /\ pc' = "upload"
    /\ UNCHANGED <<dbVars, session, proc, scen, runId, pool, cursor, handlers, testCases, stats,
                   testCaseId, histVars, env, exitCode, message, test_metrics, config>>

\* onEnd when mkdirSync or writeFileSync throws: onEnd rejects and nothing is uploaded
DinoOnEndSaveThrows ==
    /\ proc = "testdino" /\ pc = "begun"
    /\ cursor = Len(EventsOf(scen))
    /\ Reject
    /\ pc' = "rejected"
    /\ UNCHANGED <<dbVars, session, proc, scen, runId, pool, cursor, handlers, testCases, stats,
                   testCaseId, lost, resolved, plan, sysVars>>

\* the answer to the POST of this process
Answered(status) == [http EXCEPT ![Len(http)].status = status]

\* the endpoint answers 2xx
DinoUploaded ==
    /\ proc = "testdino" /\ pc = "upload"
    /\ http' = Answered("ok")
    /\ pc' = "ended"
    /\ UNCHANGED <<dbVars, session, proc, scen, runId, pool, cursor, handlers, testCases, stats,
                   testCaseId, histVars, env, exitCode, message, files, config, test_metrics>>

\* the endpoint answers non-2xx or fetch rejects: the catch of uploadResults logs the
\* error and onEnd completes
DinoUploadFails ==
    /\ proc = "testdino" /\ pc = "upload"
    /\ Reject
    /\ \E status \in {"refused", "network"} : http' = Answered(status)
    /\ message' = <<"Failed to upload results">>
    /\ pc' = "ended"
    /\ UNCHANGED <<dbVars, session, proc, scen, runId, pool, cursor, handlers, testCases, stats,
                   testCaseId, lost, resolved, plan, env, exitCode, files, config, test_metrics>>

\* the steps of a TestDino reporter
DinoRun ==
    \/ DinoOnBegin
    \/ DinoOnTestEnd
    \/ DinoOnEnd
    \/ DinoOnEndSaveThrows
    \/ DinoUploaded
    \/ DinoUploadFails

(***************************************************************************)
(* The ingestion CLI around ResultsIngester.                               *)
(***************************************************************************)
\* the same CLI with an exit code of 0 on every path
CliExitCodeZero(at) == 0

\* the exit code: process.exit(1) before the ingester exists and in the catch of
\* ingest(), 0 when the process runs out of work after ingest() has resolved
CliExitCode(at) == IF at = "done" THEN 0 ELSE 1

\* a CLI process that ends before an ingester exists
CliStops(arg, text) ==
    /\ proc = "idle"
    /\ session < MaxSessions
    /\ session' = session + 1
    /\ plan' = Append(plan, arg)
    /\ message' = text
    /\ exitCode' = CliExitCode("stopped")
    /\ UNCHANGED <<dbVars, proc, scen, runId, pool, pc, cursor, handlers, testCases, stats,
                   testCaseId, faults, lost, resolved, env, files, config, http, test_metrics>>

\* no argument: the usage line and process.exit(1)
CliUsage == CliStops(NoArgument, <<"Usage: ", "npx ts-node scripts/ingest-results.ts <path-to-json-report>">>)

\* the argument names no file: process.exit(1)
CliNotFound == \E arg \in AbsentNames : CliStops(arg, <<"Error: File not found: ", arg>>)

\* the argument names a file: new ResultsIngester()
NewCliIngester == \E name \in CliJsonNames : Construct("ingester", name)

\* the steps of ingest
IngestRun ==
    \/ Ingest
    \/ IngestUnparsable
    \/ IngestMalformed
    \/ IngestCreateRun
    \/ IngestCase
    \/ IngestResult
    \/ IngestNotIterable
    \/ IngestStats
    \/ IngestRejected

(***************************************************************************)
(* TestAgent (prompts/test-agent.ts): the interactive test generator.      *)
(* A path is a sequence of tokens; an answer is the trimmed line typed.    *)
(***************************************************************************)
\* the runs of white space /\s+/ matches
Whitespace == {" ", "  "}

\* the answers typed at the prompts of the test agent
TypeAnswers == {"1", "2", "3", "4", "5", "6", ""}
NameAnswers == {<<"login">>, <<"User", "  ", "Login">>, <<>>}
DescriptionAnswers == {<<"logs", " ", "in">>}

\* String.prototype.toLowerCase, on one token
toLowerCase(tok) ==
    CASE tok = "User" -> "user"
      [] tok = "Login" -> "login"
      [] tok = "N" -> "n"
      [] tok = "Y" -> "y"
      [] OTHER -> tok

\* String.prototype.toLowerCase
LowerCase(text) == [i \in 1..Len(text) |-> toLowerCase(text[i])]

\* name.toLowerCase().replace(/\s+/g, '-')
FileStem(name) ==
    [i \in 1..Len(name) |-> IF name[i] \in Whitespace THEN "-" ELSE toLowerCase(name[i])]

\* selectTestType: typeMap[choice] || 'ui'
selectTestType(choice) ==
    CASE choice = "1" -> "api"
      [] choice = "2" -> "ui"
      [] choice = "3" -> "performance"
      [] choice = "4" -> "storybook"
      [] choice = "5" -> "component"
      [] OTHER -> "ui"

\* the TestConfig that run() builds
TestConfig(type, name, description) ==
    [type |-> type, name |-> name, description |-> description,
     outputPath |-> <<"tests", "/", type, "/">> \o name \o <<".spec.ts">>]

\* generateTest: the template of the type with its placeholders replaced
generateTest(c) ==
    [template |-> c.type, TEST_NAME |-> c.name, TEST_DESCRIPTION |-> c.description,
     STORY_PATH |-> FileStem(c.name), COMPONENT_ID |-> FileStem(c.name)]

\* saveTest: the file `${stem}.${type}.spec.ts` in the directory tests/<type>
saveTest(fs, c, content) ==
    LET testDir == <<"tests", "/", c.type>>
        fileName == FileStem(c.name) \o <<".", c.type, ".spec.ts">>
        filePath == testDir \o <<"/">> \o fileName
    IN  (filePath :> content) @@ fs

\* an agent is started from the command line: its constructor opens the readline interface
StartAgent(kind) ==
    /\ proc = "idle"
    /\ session < MaxSessions
    /\ session' = session + 1
    /\ proc' = kind
    /\ scen' = <<>>
    /\ plan' = Append(plan, kind)
    /\ UNCHANGED <<dbVars, runId, pool, cursor, handlers, testCases, stats, testCaseId, faults,
                   lost, resolved, env, exitCode, message, files, http, test_metrics>>

\* new TestAgent().run() up to the first prompt
NewTestAgent ==
    /\ StartAgent("testagent")
    /\ pc' = "type"
    /\ config' = NoConfig

\* the choice is typed: selectTestType returns, getTestDetails prompts for the name
SelectTestType ==
    /\ proc = "testagent" /\ pc = "type"
    /\ \E choice \in TypeAnswers :
           /\ scen' = Append(scen, choice)
           /\ config' = [type |-> selectTestType(choice)]
    /\ pc' = "details"
    /\ UNCHANGED <<dbVars, session, proc, runId, pool, cursor, handlers, testCases, stats,
                   testCaseId, histVars, env, exitCode, message, files, http, test_metrics>>

\* name and description are typed: run() builds the config, generates the test, saves it
\* and closes the interface
GetTestDetails ==
    /\ proc = "testagent" /\ pc = "details"
    /\ \E name \in NameAnswers, description \in DescriptionAnswers :
           /\ scen' = scen \o <<name, description>>
           /\ config' = TestConfig(config.type, name, description)
           /\ files' = saveTest(files, config', generateTest(config'))
    /\ pc' = "ended"
    /\ UNCHANGED <<dbVars, session, proc, runId, pool, cursor, handlers, testCases, stats,
                   testCaseId, histVars, env, exitCode, message, http, test_metrics>>

(***************************************************************************)
(* AggregationAgent (scripts/setup-aggregation.ts): the interactive setup. *)
(* The text of an env file is its lines, each a key and a value.           *)
(***************************************************************************)
EnvPath == <<".env">>
ExamplePath == <<".env.example">>

Line(key, value) == [key |-> key, value |-> value]

\* an .env.example with every key the agent writes
ExampleEnv ==
    << Line("AGGREGATION_METHOD", <<"none">>),
       Line("DB_TYPE", <<"postgresql">>), Line("DB_HOST", <<"localhost">>),
       Line("DB_PORT", <<"5432">>), Line("DB_NAME", <<"playwright_results">>),
       Line("DB_USER", <<"postgres">>), Line("DB_PASSWORD", <<>>),
       Line("TESTDINO_API_KEY", <<>>), Line("TESTDINO_PROJECT_ID", <<>>),
       Line("JSON_OUTPUT_PATH", <<"./test-results/aggregated-results.json">>) >>

\* an .env of an earlier setup for the database
DatabaseEnv == [ExampleEnv EXCEPT ![1].value = <<"database">>, ![7].value = <<"secret">>]

\* an .env written by hand, without the line of the method
BareEnv == << Line("DB_HOST", <<"db.internal">>), Line("DB_PASSWORD", <<"secret">>) >>

\* the working directories the agent is started in
Workspaces ==
    {NoFiles, ExamplePath :> ExampleEnv, EnvPath :> DatabaseEnv, EnvPath :> BareEnv,
     (EnvPath :> DatabaseEnv) @@ (ExamplePath :> ExampleEnv)}

InitAggregation == \E fs \in Workspaces : StartIn(DbEnv, fs)

\* the answers typed at the prompts of the aggregation agent
MethodAnswers == {<<"1">>, <<"2">>, <<"3">>, <<"4">>, <<"7">>, <<>>}
YesNoAnswers == {<<>>, <<"n">>, <<"N">>, <<"y">>}
SecretAnswers == {<<>>, <<"s3cret">>}
TypeOfDbAnswers == {<<>>, <<"mysql">>}
PathAnswers == {<<>>, <<"out.json">>}

\* `${x}` of a member that was never assigned
Undefined == <<"undefined">>

\* private config: SetupConfig = { method: 'none' }
SetupConfig ==
    [method |-> "none", dbType |-> Undefined, dbHost |-> Undefined, dbPort |-> Undefined,
     dbName |-> Undefined, dbUser |-> Undefined, dbPassword |-> Undefined,
     testdinoApiKey |-> Undefined, testdinoProjectId |-> Undefined,
     jsonOutputPath |-> Undefined, useDocker |-> FALSE, setupGithubActions |-> FALSE]

\* selectAggregationMethod: methodMap[choice] || 'none'
methodMap(choice) ==
    CASE choice = <<"1">> -> "database"
      [] choice = <<"2">> -> "testdino"
      [] choice = <<"3">> -> "json"
      [] choice = <<"4">> -> "none"
      [] OTHER -> "none"

\* envContent.replace(/KEY=.*/, `KEY=${value}`): the first line that holds the key gets
\* the value, a text without the key stays as it is
ReplaceFirst(content, key, value) ==
    LET hits == {i \in 1..Len(content) : content[i].key = key}
    IN  IF hits = {} THEN content
        ELSE LET first == CHOOSE i \in hits : \A j \in hits : i <= j
             IN  [content EXCEPT ![first].value = value]

RECURSIVE ReplaceAll(_, _)
\* one replace after the other
ReplaceAll(content, pairs) ==
    IF pairs = <<>> THEN content
    ELSE ReplaceAll(ReplaceFirst(content, pairs[1][1], pairs[1][2]), Tail(pairs))

\* updateEnvFile: the text of .env, else of .env.example, else nothing is written; the
\* method and the settings of the method are replaced and the text is written to .env
updateEnvFile(fs, c) ==
    IF EnvPath \notin DOMAIN fs /\ ExamplePath \notin DOMAIN fs THEN fs
    ELSE LET envContent == IF EnvPath \in DOMAIN fs THEN fs[EnvPath] ELSE fs[ExamplePath]
             settings ==
                 CASE c.method = "database" ->
                        << <<"DB_TYPE", c.dbType>>, <<"DB_HOST", c.dbHost>>, <<"DB_PORT", c.dbPort>>,
                           <<"DB_NAME", c.dbName>>, <<"DB_USER", c.dbUser>>,
                           <<"DB_PASSWORD", c.dbPassword>> >>
                   [] c.method = "testdino" ->
                        << <<"TESTDINO_API_KEY", c.testdinoApiKey>>,
                           <<"TESTDINO_PROJECT_ID", c.testdinoProjectId>> >>
                   [] c.method = "json" -> << <<"JSON_OUTPUT_PATH", c.jsonOutputPath>> >>
                   [] OTHER -> <<>>
         IN  (EnvPath :> ReplaceAll(envContent, << <<"AGGREGATION_METHOD", <<c.method>> >> >> \o settings))
                 @@ fs

\* the steps of an agent leave everything but its answers, its config, its position and
\* the files alone
AgentStep ==
    UNCHANGED <<dbVars, session, proc, runId, pool, cursor, handlers, testCases, stats,
                testCaseId, histVars, env, exitCode, message, http, test_metrics>>

\* new AggregationAgent().run() up to the first prompt
NewAggregationAgent ==
    /\ StartAgent("aggregation")
    /\ pc' = "method"
    /\ config' = SetupConfig

\* the choice is typed: for `none` run() closes the interface and returns, else the
\* setup of the method prompts
SelectAggregationMethod ==
    /\ proc = "aggregation" /\ pc = "method"
    /\ \E choice \in MethodAnswers :
           /\ scen' = Append(scen, choice)
           /\ config' = [config EXCEPT !.method = methodMap(choice)]
    /\ pc' = CASE config'.method = "none" -> "ended"
               [] config'.method = "database" -> "docker"
               [] config'.method = "testdino" -> "account"
               [] config'.method = "json" -> "path"
    /\ UNCHANGED files
    /\ AgentStep

\* setupDatabase: with Docker, setupDatabaseDocker checks `docker --version` and returns
\* when it fails, else sets the defaults and prompts for the password
SetupDatabase ==
    /\ proc = "aggregation" /\ pc = "docker"
    /\ \E dockerChoice \in YesNoAnswers :
           /\ scen' = Append(scen, dockerChoice)
           /\ IF LowerCase(dockerChoice) = <<"n">>
              THEN /\ config' = [config EXCEPT !.useDocker = FALSE]
                   /\ pc' = "manual"
              ELSE \E installed \in BOOLEAN :
                      IF ~installed
                      THEN /\ config' = [config EXCEPT !.useDocker = TRUE]
                           /\ pc' = "update"
                      ELSE /\ config' = [config EXCEPT !.useDocker = TRUE,
                                                        !.dbType = <<"postgresql">>,
                                                        !.dbHost = <<"localhost">>,
                                                        !.dbPort = <<"5432">>,
                                                        !.dbName = <<"playwright_results">>,
                                                        !.dbUser = <<"postgres">>]
                           /\ pc' = "password"
    /\ UNCHANGED files
    /\ AgentStep

\* setupDatabaseDocker after the check: the password, then the confirmation; cancelled or
\* not, and whether `npm run db:start` succeeds or fails, it returns to run()
SetupDatabaseDocker ==
    /\ proc = "aggregation" /\ pc = "password"
    /\ \E dbPassword \in SecretAnswers, confirm \in YesNoAnswers :
           /\ scen' = scen \o <<dbPassword, confirm>>
           /\ config' = [config EXCEPT !.dbPassword = OrElse(dbPassword, <<"postgres">>)]
    /\ pc' = "update"
    /\ UNCHANGED files
    /\ AgentStep

\* setupDatabaseManual: six prompts, each with its default but the password
SetupDatabaseManual ==
    /\ proc = "aggregation" /\ pc = "manual"
    /\ \E dbType \in TypeOfDbAnswers, dbPassword \in SecretAnswers :
           LET type == OrElse(dbType, <<"postgresql">>)
               defaultPort == IF type = <<"postgresql">> THEN <<"5432">> ELSE <<"3306">>
           IN  /\ scen' = scen \o <<dbType, <<>>, <<>>, <<>>, <<>>, dbPassword>>
               /\ config' = [config EXCEPT !.dbType = type,
                                            !.dbHost = OrElse(<<>>, <<"localhost">>),
                                            !.dbPort = OrElse(<<>>, defaultPort),
                                            !.dbName = OrElse(<<>>, <<"playwright_results">>),
                                            !.dbUser = OrElse(<<>>, <<"postgres">>),
                                            !.dbPassword = dbPassword]
    /\ pc' = "update"
    /\ UNCHANGED files
    /\ AgentStep

\* setupTestDino: without an account it returns; else the key and the project id are
\* typed, and it returns whether or not one of them is empty
SetupTestDino ==
    /\ proc = "aggregation" /\ pc = "account"
    /\ \E hasAccount \in YesNoAnswers :
           IF LowerCase(hasAccount) # <<"y">>
           THEN /\ scen' = Append(scen, hasAccount)
                /\ UNCHANGED config
           ELSE \E apiKey \in SecretAnswers, projectId \in SecretAnswers :
                   /\ scen' = scen \o <<hasAccount, apiKey, projectId>>
                   /\ config' = [config EXCEPT !.testdinoApiKey = apiKey,
                                                !.testdinoProjectId = projectId]
    /\ pc' = "update"
    /\ UNCHANGED files
    /\ AgentStep

\* setupJSON: the output path or its default
SetupJSON ==
    /\ proc = "aggregation" /\ pc = "path"
    /\ \E answer \in PathAnswers :
           /\ scen' = Append(scen, answer)
           /\ config' = [config EXCEPT !.jsonOutputPath =
                             OrElse(answer, <<"./test-results/aggregated-results.json">>)]
    /\ pc' = "update"
    /\ UNCHANGED files
    /\ AgentStep

\* updateEnvFile, then updatePlaywrightConfig (which only prints), up to the prompt of
\* setupGitHubActions
UpdateEnvFile ==
    /\ proc = "aggregation" /\ pc = "update"
    /\ files' = updateEnvFile(files, config)
    /\ pc' = "actions"
    /\ UNCHANGED <<scen, config>>
    /\ AgentStep

\* setupGitHubActions: the answer is typed; showNextSteps prints and the finally block
\* closes the interface
SetupGitHubActions ==
    /\ proc = "aggregation" /\ pc = "actions"
    /\ \E setupGHA \in YesNoAnswers :
           /\ scen' = Append(scen, setupGHA)
           /\ config' = [config EXCEPT !.setupGithubActions = LowerCase(setupGHA) # <<"n">>]
    /\ pc' = "ended"
    /\ UNCHANGED files
    /\ AgentStep

(***************************************************************************)
(* waitForApiReady(request, endpoint, maxAttempts, delayMs) of the API     *)
(* helpers, called by a test. config is the frame of the call, cursor is   *)
(* its `i`, scen holds the outcomes of its requests so far, and http gets  *)
(* the requests it issues.                                                 *)
(***************************************************************************)
\* the values of maxAttempts the callers pass
AttemptBounds == {0, 1, 2, 3}

\* what a request can come to: a response that is ok(), one that is not, or a throw
Outcomes == {"ok", "notok", "throws"}

\* request.get(endpoint), as the endpoint is sent it
Get(call, status) == [call |-> call, url |-> <<"/health">>, status |-> status]

\* the same loop with `i <= maxAttempts`
AtMost(i, maxAttempts) == i <= maxAttempts

\* the condition of the for loop
LessThan(i, maxAttempts) == i < maxAttempts

\* the head of the loop with i: the next request is issued, or the loop is left and
\* the function returns false
LoopHead(i, frame, call) ==
    IF LessThan(i, frame.maxAttempts)
    THEN /\ http' = Append(http, Get(call, "pending"))
         /\ config' = frame
         /\ pc' = "get"
    ELSE /\ config' = [frame EXCEPT !.returned = <<FALSE>>]
         /\ pc' = "ended"
         /\ UNCHANGED http

\* the steps of the call leave the database, the files and the environment alone
WaitStep ==
    UNCHANGED <<dbVars, runId, pool, handlers, testCases, stats, testCaseId, histVars,
                env, exitCode, message, files, test_metrics>>

\* a test calls waitForApiReady: i = 0 and the loop is entered
WaitForApiReady ==
    /\ proc = "idle"
    /\ session < MaxSessions
    /\ session' = session + 1
    /\ proc' = "waiter"
    /\ scen' = <<>>
    /\ cursor' = 0
    /\ \E maxAttempts \in AttemptBounds :
           LoopHead(0, [maxAttempts |-> maxAttempts, returned |-> <<>>], session + 1)
    /\ UNCHANGED <<dbVars, runId, pool, handlers, testCases, stats, testCaseId, faults, lost,
                   resolved, env, exitCode, message, files, test_metrics>>
    /\ plan' = Append(plan, "waiter")

\* the request settles: with a response that is ok the function returns true; a response
\* that is not ok or a throw (caught) leads to the delay
WaitResponse ==
    /\ proc = "waiter" /\ pc = "get"
    /\ \E outcome \in Outcomes :
           /\ scen' = Append(scen, outcome)
           /\ http' = [http EXCEPT ![Len(http)].status = outcome]
           /\ IF outcome = "ok"
              THEN /\ config' = [config EXCEPT !.returned = <<TRUE>>]
                   /\ pc' = "ended"
              ELSE /\ pc' = "delay"
                   /\ UNCHANGED config
    /\ UNCHANGED <<session, proc, cursor>>
    /\ WaitStep

\* the timer of delayMs fires: i++ and the head of the loop
WaitDelay ==
    /\ proc = "waiter" /\ pc = "delay"
    /\ cursor' = cursor + 1
    /\ LoopHead(cursor + 1, config, session)
    /\ UNCHANGED <<session, proc, scen>>
    /\ WaitStep

(***************************************************************************)
(* The process ends once nothing of it is pending.                         *)
(***************************************************************************)
Exit ==
    /\ proc \in {"reporter", "ingester", "testdino", "testagent", "aggregation", "waiter"}
    /\ pc \in {"ended", "rejected", "done", "failed"}
    /\ handlers = {}
    /\ proc' = "idle"
    /\ scen' = ""
    /\ runId' = 0
    /\ pool' = "null"
    /\ pc' = "none"
    /\ cursor' = 0
    /\ testCases' = <<>>
    /\ stats' = NoStats
    /\ testCaseId' = 0
    /\ lost' = {}
    /\ exitCode' = IF proc = "ingester" THEN CliExitCode(pc) ELSE exitCode
    /\ config' = NoConfig
    /\ UNCHANGED <<dbVars, session, handlers, faults, resolved, plan, env, message, files, http,
                   test_metrics>>

\* the steps of a started process
Run ==
    \/ OnBegin
    \/ OnBeginRejected
    \/ OnTestEnd
    \/ \E h \in handlers : UpsertReturns(h)
    \/ \E h \in handlers : UpsertRejected(h)
    \/ \E h \in handlers : InsertReturns(h)
    \/ \E h \in handlers : InsertRejected(h)
    \/ OnEnd
    \/ StatsReturn
    \/ UpdateReturns
    \/ OnEndRejected
    \/ Ingest
    \/ IngestCreateRun
    \/ IngestCase
    \/ IngestResult
    \/ IngestStats
    \/ IngestRejected
    \/ Exit

\* the steps of insertPerformanceMetrics
MetricRun ==
    \/ \E h \in handlers : MetricReturns(h)
    \/ \E h \in handlers : MetricRejected(h)

Next ==
    \/ NewReporter
    \/ NewIngester
    \/ Run
    \/ MetricRun

Spec == Init /\ [][Next]_vars

\* the same processes over the short runs and reports only
NextShort ==
    \/ NewShortReporter
    \/ NewShortIngester
    \/ Run

SpecShort == Init /\ [][NextShort]_vars

\* the same on a CI server, for each setting of CI_PROVIDER and GITHUB_ACTIONS
InitCi == \E e \in CiEnvs : Start(e)

SpecCi == InitCi /\ [][NextShort]_vars

\* the three reporters and the ingester in any environment, over the short inputs
NextEnv ==
    \/ NewShortReporter
    \/ NewShortIngester
    \/ NewTestDino
    \/ NewTestDinoThrows
    \/ Run
    \/ DinoRun

SpecEnv == InitAnyEnv /\ [][NextEnv]_vars

\* the TestDino reporter alone, in any environment
NextDino ==
    \/ NewTestDino
    \/ NewTestDinoThrows
    \/ DinoRun
    \/ Exit

SpecDino == InitAnyEnv /\ [][NextDino]_vars

\* the live runs with output on stdout: two of a performance test, one of an API test
PerfNames == {"metrics", "pretty", "firefox"}

NewPerfReporter == \E name \in PerfNames : Construct("reporter", name)

\* the steps of a DatabaseReporter
ReporterRun ==
    \/ OnBegin
    \/ OnBeginRejected
    \/ OnTestEnd
    \/ \E h \in handlers : UpsertReturns(h)
    \/ \E h \in handlers : UpsertRejected(h)
    \/ \E h \in handlers : InsertReturns(h)
    \/ \E h \in handlers : InsertRejected(h)
    \/ OnEnd
    \/ StatsReturn
    \/ UpdateReturns
    \/ OnEndRejected

\* the DatabaseReporter alone, over the runs with output
NextPerf ==
    \/ NewPerfReporter
    \/ ReporterRun
    \/ MetricRun
    \/ Exit

SpecPerf == Init /\ [][NextPerf]_vars

\* the live runs of performance tests with and without a payload that parses
PayloadNames == {"metrics", "quiet"}

NewPayloadReporter == \E name \in PayloadNames : Construct("reporter", name)

\* the DatabaseReporter alone, over these runs
NextPayload ==
    \/ NewPayloadReporter
    \/ ReporterRun
    \/ MetricRun
    \/ Exit

SpecPayload == Init /\ [][NextPayload]_vars

\* calls of waitForApiReady alone
NextWait ==
    \/ WaitForApiReady
    \/ WaitResponse
    \/ WaitDelay
    \/ Exit

\* every request settles, since request.get has a timeout, and every timer fires
SpecWait == Init /\ [][NextWait]_vars /\ WF_vars(WaitResponse) /\ WF_vars(WaitDelay)

\* the test agent alone
NextTestAgent ==
    \/ NewTestAgent
    \/ SelectTestType
    \/ GetTestDetails
    \/ Exit

SpecTestAgent == Init /\ [][NextTestAgent]_vars

\* the aggregation agent alone, in every working directory
NextAggregation ==
    \/ NewAggregationAgent
    \/ SelectAggregationMethod
    \/ SetupDatabase
    \/ SetupDatabaseDocker
    \/ SetupDatabaseManual
    \/ SetupTestDino
    \/ SetupJSON
    \/ UpdateEnvFile
    \/ SetupGitHubActions
    \/ Exit

SpecAggregation == InitAggregation /\ [][NextAggregation]_vars

\* the ingestion CLI alone, over every kind of argument
NextCli ==
    \/ CliUsage
    \/ CliNotFound
    \/ NewCliIngester
    \/ IngestRun
    \/ Exit

SpecCli == Init /\ [][NextCli]_vars

(***************************************************************************)
(* Shorthands for the properties.                                          *)
(***************************************************************************)
\* the row of the running process's run, when it exists
MyRuns == {row \in test_runs : row.run_id = runId}

\* the counts a run row stores
StoredCounts(row) ==
    [passed |-> row.passed_tests, failed |-> row.failed_tests,
     skipped |-> row.skipped_tests, flaky |-> row.flaky_tests]

\* the rows of test_results a run owns
RowsOf(run) == {i \in DOMAIN test_results : test_results[i].run_id = run}

\* the rows of a run that carry a status
RowsWith(run, st) == {i \in RowsOf(run) : test_results[i].status = st}

\* the reporter has closed its run, nothing was rejected or dropped, and no result
\* arrived after onEnd had counted
ReporterClosedQuietly ==
    /\ proc = "reporter" /\ pc = "ended"
    /\ handlers = {} /\ lost = {} /\ faults = 0
    /\ stats = getRunStats(test_results, runId)

\* the ingester has closed its run
IngesterClosed == proc = "ingester" /\ pc = "done"

\* the result queries of a report
ResultQueries(name) ==
    {c \in DOMAIN IngestQueries(ReportOf(name)) : IngestQueries(ReportOf(name))[c].op = "result"}

\* the run holds one result for each test, with one of the statuses C3 names:
\* live, no attempt is a retry and every attempt wrote its row; in a report, every
\* test lists one result
OneResultPerTest ==
    /\ \A i \in RowsOf(runId) : test_results[i].status \in {"passed", "failed", "skipped", "timedOut"}
    /\ IF proc = "reporter"
       THEN /\ Len(EventsOf(scen)) = countTests(SuiteOf(scen))
            /\ \A k \in DOMAIN EventsOf(scen) :
                   /\ EventsOf(scen)[k].retry = 0
                   /\ \E i \in RowsOf(runId) : test_results[i].src = k
       ELSE \A c \in ResultQueries(scen) :
               LET q == IngestQueries(ReportOf(scen))[c]
               IN  Len(q.spec.tests[q.ti].results) = 1

(***************************************************************************)
(* C1. For the live run of 3 tests in which 2 pass at once and 1 fails and *)
(* then passes on retry, the closed run holds passed = 2, failed = 0,      *)
(* flaky = 1, and total_tests = 3.                                         *)
(***************************************************************************)
C1_RetryRunCounts ==
    (ReporterClosedQuietly /\ scen = "retry") =>
        \A row \in MyRuns :
            /\ row.total_tests = 3
            /\ StoredCounts(row) = [passed |-> 2, failed |-> 0, skipped |-> 0, flaky |-> 1]

(***************************************************************************)
(* C2. In every state, every run row has                                   *)
(* passed_tests + failed_tests + skipped_tests <= total_tests.             *)
(***************************************************************************)
C2_CountsWithinTotal ==
    \A row \in test_runs :
        row.passed_tests + row.failed_tests + row.skipped_tests <= row.total_tests

(***************************************************************************)
(* C3. After a run in which every test produced exactly one result is      *)
(* closed, passed_tests + failed_tests + skipped_tests = total_tests,      *)
(* whatever the status of the results.                                     *)
(***************************************************************************)
C3_CountsAddUp ==
    ((ReporterClosedQuietly \/ IngesterClosed) /\ OneResultPerTest) =>
        \A row \in MyRuns :
            row.passed_tests + row.failed_tests + row.skipped_tests = row.total_tests

(***************************************************************************)
(* C4. When a run is closed, each stored count is the number of rows of    *)
(* test_results of that run with that status, in the reporter and in the   *)
(* ingester.                                                               *)
(***************************************************************************)
C4_CountsAreRowCounts ==
    (ReporterClosedQuietly \/ IngesterClosed) =>
        \A row \in MyRuns :
            /\ row.passed_tests = Cardinality(RowsWith(runId, "passed"))
            /\ row.failed_tests = Cardinality(RowsWith(runId, "failed"))
            /\ row.skipped_tests = Cardinality(RowsWith(runId, "skipped"))
            /\ row.flaky_tests = Cardinality(RowsWith(runId, "flaky"))

(***************************************************************************)
(* C5. When the write of one result (its case upsert or its insert) is     *)
(* rejected, every other result of the run is persisted and the run is     *)
(* closed with counts that match the persisted results, in the reporter    *)
(* and in the ingester.                                                    *)
(***************************************************************************)
\* the process is over and the one query that was rejected was a result's write
OneResultWriteFailed ==
    /\ pc \in {"ended", "rejected", "done", "failed"}
    /\ handlers = {}
    /\ faults = 1
    /\ Cardinality(lost) = 1
    /\ proc = "ingester" =>
           \A c \in lost : IngestQueries(ReportOf(scen))[c].op \in {"case", "result"}

\* the results the rejected query does not belong to
OtherResults ==
    IF proc = "reporter"
    THEN DOMAIN EventsOf(scen) \ lost
    ELSE {c \in ResultQueries(scen) :
            \A f \in lost : IngestQueries(ReportOf(scen))[c].spec # IngestQueries(ReportOf(scen))[f].spec}

C5_OneFailureLosesOneResult ==
    OneResultWriteFailed =>
        /\ \A o \in OtherResults : \E i \in RowsOf(runId) : test_results[i].src = o
        /\ \A row \in MyRuns : row.status # "running"

OneRowPerTuple(cases) == \A a, b \in cases : SameTuple(a, b) => a = b

KeptButTitle(old, new) == new = [old EXCEPT !.title = new.title, !.updated_at = new.updated_at]

C7_ConflictSafeUpsert ==
    [][/\ OneRowPerTuple(test_cases')
       /\ \A old \in test_cases : \E new \in test_cases' : KeptButTitle(old, new)]_vars

\* the run "joined" alone: two upserts of one tuple were executed, the row has the tags
\* of the first (JoinedTest) and the title of the second (CreatesTest)
C7_Witness ==
    /\ plan = <<"joined">>
    /\ case_seq = 2
    /\ \E row \in test_cases :
          /\ test_cases = {row}
          /\ row.id = 1
          /\ row.tags = <<"smoke">>
          /\ row.title = <<"creates">>

(***************************************************************************)
(* C8. A run recorded by the live reporter and then ingested from its JSON *)
(* report resolves every test to the same test_cases row through both      *)
(* entry points: afterwards test_cases holds one row per test.             *)
(***************************************************************************)
\* the report of a live run
ReportNameOf(name) ==
    CASE name = "retry" -> "retry.json"
      [] name = "single" -> "single.json"
      [] name = "projects" -> "projects.json"
      [] name = "firefox" -> "firefox.json"
      [] OTHER -> "none"

C8_OneRowThroughBothEntryPoints ==
    (/\ Len(plan) = 2
     /\ plan[2] = ReportNameOf(plan[1])
     /\ IngesterClosed
     /\ faults = 0
     /\ Cardinality(RowsOf(1)) = Len(EventsOf(plan[1]))) =>
        Cardinality(test_cases) = countTests(SuiteOf(plan[1]))

(***************************************************************************)
(* C9. Every row of test_results references an existing test_runs row and  *)
(* an existing test_cases row.                                             *)
(***************************************************************************)
C9_ResultsReferenceRunAndCase ==
    \A i \in DOMAIN test_results :
        /\ \E run \in test_runs : run.run_id = test_results[i].run_id
        /\ CaseExists(test_cases, test_results[i].test_case_id)

(***************************************************************************)
(* C10. A run row appears with status running, no finish timestamp and     *)
(* zero counts; it is never removed; it changes only while running, to     *)
(* completed or failed with a finish timestamp, keeping run_id,            *)
(* total_tests and started_at; after that it never changes.                *)
(***************************************************************************)
RunRowBorn(new) ==
    new = [run_id |-> new.run_id, ci_provider |-> new.ci_provider, status |-> "running",
           total_tests |-> new.total_tests,
           passed_tests |-> 0, failed_tests |-> 0, skipped_tests |-> 0, flaky_tests |-> 0,
           started_at |-> new.started_at, finished_at |-> <<>>]

RunRowClosed(old, new) ==
    /\ old.status = "running"
    /\ new.status \in {"completed", "failed"}
    /\ new.finished_at # <<>>
    /\ new.total_tests = old.total_tests
    /\ new.started_at = old.started_at

C10_RunLifecycle ==
    [][/\ \A old \in test_runs :
             \E new \in test_runs' :
                 /\ new.run_id = old.run_id
                 /\ new = old \/ RunRowClosed(old, new)
       /\ \A new \in test_runs' :
             (\A old \in test_runs : old.run_id # new.run_id) => RunRowBorn(new)
       /\ \A a, b \in test_runs' : a.run_id = b.run_id => a = b]_vars

\* a completed run and a later failed run, each closed by its own process
C10_Witness ==
    /\ \E a, b \in test_runs :
          /\ a.status = "completed" /\ a.finished_at # <<>>
          /\ b.status = "failed" /\ b.finished_at # <<>>
          /\ a.run_id < b.run_id

(***************************************************************************)
(* C11. With no credentials in the environment no pipeline starts: no      *)
(* DatabaseReporter or ResultsIngester opens a pool when no DB_* setting   *)
(* is present, and no TestDinoReporter exists when the API key or the      *)
(* project id is absent.                                                   *)
(***************************************************************************)
\* no DB_* setting is present
NoDbSettings ==
    /\ env.DB_HOST = Unset /\ env.DB_NAME = Unset
    /\ env.DB_USER = Unset /\ env.DB_PASSWORD = Unset

C11_NoRunWithoutCredentials ==
    /\ (proc \in {"reporter", "ingester"} /\ NoDbSettings) => pool = "null"
    /\ (proc = "testdino") => (env.TESTDINO_API_KEY # Unset /\ env.TESTDINO_PROJECT_ID # Unset)

(***************************************************************************)
(* C17. Whenever the upload of TestDinoReporter.onEnd has been attempted,  *)
(* the results file holds the payload that was sent; when the upload       *)
(* failed, onEnd has completed all the same.                               *)
(***************************************************************************)
\* the uploads of the running TestDino reporter
MyUploads == {i \in DOMAIN http : proc = "testdino" /\ http[i].run = runId}

C17_SavedBeforeUpload ==
    \A i \in MyUploads :
        /\ outputPath \in DOMAIN files
        /\ files[outputPath].json = http[i].body.json
        /\ http[i].status \in {"refused", "network"} => pc = "ended"

\* an upload of two tests was refused
C17_Witness ==
    \E i \in MyUploads :
        /\ http[i].status = "refused"
        /\ Len(http[i].body.json.tests) = 2
        /\ pc = "ended"

(***************************************************************************)
(* C12. A process of the ingestion CLI ends with exit code 0 when its      *)
(* report has been ingested (its run is closed as completed and every      *)
(* result of the report has its row) and with exit code 1 in every other   *)
(* case: no argument, no file, or an error thrown at any step.             *)
(***************************************************************************)
\* the report of the running ingester is in the database
Ingested ==
    /\ proc = "ingester"
    /\ \E row \in MyRuns : row.status = "completed"
    /\ Parses(scen)
    /\ \A c \in ResultQueries(scen) : \E i \in RowsOf(runId) : test_results[i].src = c

\* this step ends a CLI process
CliEnds ==
    \/ proc = "ingester" /\ proc' = "idle"
    \/ proc = "idle" /\ proc' = "idle" /\ session' = session + 1

C12_ExitCodes ==
    [][CliEnds => /\ exitCode' \in {0, 1}
                  /\ exitCode' = 0 <=> Ingested]_vars

\* two processes have ended, one with exit code 0 after the other had failed on a
\* rejected query
C12_Witness ==
    /\ proc = "idle"
    /\ session = 2
    /\ plan[2] = "single.json"
    /\ exitCode = 0
    /\ faults = 1
    /\ \E row \in test_runs : row.run_id = 1 /\ row.status = "running"

(***************************************************************************)
(* C13. The CLI process of a report without `stats` or without `suites`    *)
(* ends with exit code 1 and a message that names the missing field.       *)
(***************************************************************************)
MissingField(name) == IF name = "nostats.json" THEN "stats" ELSE "suites"

C13_MalformedReportNamed ==
    (/\ proc = "idle"
     /\ session > 0
     /\ plan[session] \in {"nostats.json", "nosuites.json"}
     /\ faults = 0) =>
        /\ exitCode = 1
        /\ Includes(message, MissingField(plan[session]))

(***************************************************************************)
(* C14. While no query has been rejected, every row of test_results has    *)
(* finished_at = started_at + duration_ms, with duration_ms a whole number *)
(* of ms.                                                                  *)
(***************************************************************************)
C14_FinishIsStartPlusDuration ==
    faults = 0 =>
        \A i \in DOMAIN test_results :
            /\ test_results[i].duration_ms \in Nat
            /\ test_results[i].finished_at = test_results[i].started_at + test_results[i].duration_ms

(***************************************************************************)
(* C15. In the live reporter, every row of test_metrics belongs to a       *)
(* result of a performance test, carries one of the numeric entries of the *)
(* object printed after the marker, and has unit ms; no entry has two rows *)
(* for one result; and once every onTestEnd of a run has returned without  *)
(* a rejected query, each numeric entry of each such result has its row.   *)
(* As stated, for a JSON object in any layout, the last part fails; it     *)
(* holds for an object that sits on the line of the marker.                *)
(***************************************************************************)
\* the event that wrote a row of test_results
EventOfRow(row) == EventsOf(plan[row.run_id])[row.src]

\* the entries with a numeric value of an object
NumericOf(object) ==
    {object.entries[g] : g \in {n \in DOMAIN object.entries : object.entries[n][2] \in NumberTokens}}

\* the numeric entries of the object an attempt printed on the line of the marker
NumericKeys(e) == NumericOf(ParseObject(MetricsMatch(JoinLines(e.stdout))))

\* the numeric entries of the object an attempt printed after the marker, whatever its
\* layout: line breaks are white space to JSON
NumericKeysAnyLayout(e) ==
    NumericOf(ParseObject(MetricsMatch(SelectSeq(JoinLines(e.stdout), LAMBDA t : t # "\n"))))

\* every onTestEnd of the run has returned and no query was rejected
AllReported == proc = "reporter" /\ pc = "begun" /\ handlers = {} /\ faults = 0

\* each entry of each result of a performance test of the run has its row
MetricsComplete(Keys(_)) ==
    \A r \in RowsOf(runId) :
        inferTestType(EventOfRow(test_results[r]).test.file) = "performance" =>
            \A entry \in Keys(EventOfRow(test_results[r])) :
                \E i \in DOMAIN test_metrics :
                    /\ test_metrics[i].test_result_id = r
                    /\ test_metrics[i].metric_name = entry[1]
                    /\ test_metrics[i].metric_value = entry[2]

\* every row is one numeric entry of a result of a performance test, in ms, written once
MetricsSound ==
    \A i \in DOMAIN test_metrics :
        LET row == test_metrics[i]
        IN  /\ row.test_result_id \in DOMAIN test_results
            /\ inferTestType(EventOfRow(test_results[row.test_result_id]).test.file) = "performance"
            /\ <<row.metric_name, row.metric_value>> \in
                   NumericKeys(EventOfRow(test_results[row.test_result_id]))
            /\ row.metric_unit = "ms"
            /\ \A j \in DOMAIN test_metrics :
                   (/\ test_metrics[j].test_result_id = row.test_result_id
                    /\ test_metrics[j].metric_name = row.metric_name) => j = i

\* the claim as stated: for an object in any layout
C15_MetricsOfAnyObject ==
    /\ MetricsSound
    /\ AllReported => MetricsComplete(NumericKeysAnyLayout)

\* the claim for an object on the line of the marker
C15_MetricsOfPerformanceResults ==
    /\ MetricsSound
    /\ AllReported => MetricsComplete(NumericKeys)

\* after a run of an API test that printed the marker, the run of the performance test
\* has written the two numeric entries of its result, and no other row
C15_Witness ==
    /\ plan = <<"firefox", "metrics">>
    /\ AllReported
    /\ Len(test_results) = 2
    /\ Len(test_metrics) = 2
    /\ {test_metrics[i].metric_name : i \in DOMAIN test_metrics} = {"apiLatency", "ttfb"}

(***************************************************************************)
(* C16. Whenever DatabaseReporter.onEnd or ResultsIngester.ingest has      *)
(* returned or thrown, the pool the process opened has been closed: no     *)
(* process stands past its close-of-run step with an open pool.            *)
(***************************************************************************)
\* onEnd has returned (ended) or thrown (rejected); ingest has returned (done) or thrown (failed)
CloseOfRunOver ==
    \/ proc = "reporter" /\ pc \in {"ended", "rejected"}
    \/ proc = "ingester" /\ pc \in {"done", "failed"}

C16_PoolClosedOnEveryPath == CloseOfRunOver => pool # "open"

(***************************************************************************)
(* C20. Within one DatabaseReporter the case upsert is issued at most once *)
(* per test identity: no two onTestEnd calls in flight, as those of two    *)
(* attempts of one test, both await the case upsert of that test.          *)
(***************************************************************************)
\* the test of an onTestEnd call in flight
TestOf(h) == EventsOf(scen)[h.k].test

\* two onTestEnd calls of one test that both went to the database for its case
UpsertsTwice(g, h) ==
    /\ g # h
    /\ TestOf(g) = TestOf(h)
    /\ g.at = "upsert" /\ h.at = "upsert"

C20_UpsertOncePerIdentity ==
    (proc = "reporter" /\ faults = 0) => \A g, h \in handlers : ~UpsertsTwice(g, h)

(***************************************************************************)
(* C18. For each menu choice 1-5 of the test agent, the generated file is  *)
(* at the documented location once the agent has finished:                 *)
(* tests/<directory>/<name>.<type>.spec.ts with the directories api, ui,   *)
(* performance, storybook and components.  <name> is read as the file name *)
(* form of the name typed.                                                 *)
(***************************************************************************)
\* docs of the test agent (tests/agent/TESTING.md): directory and type suffix per choice
DocumentedDirectory(choice) ==
    CASE choice = "1" -> "api"
      [] choice = "2" -> "ui"
      [] choice = "3" -> "performance"
      [] choice = "4" -> "storybook"
      [] choice = "5" -> "components"

DocumentedSuffix(choice) ==
    CASE choice = "1" -> "api"
      [] choice = "2" -> "ui"
      [] choice = "3" -> "performance"
      [] choice = "4" -> "storybook"
      [] choice = "5" -> "component"

DocumentedPath(choice, name) ==
    <<"tests", "/", DocumentedDirectory(choice), "/">> \o FileStem(name)
        \o <<".", DocumentedSuffix(choice), ".spec.ts">>

C18_FileAtDocumentedLocation ==
    (/\ proc = "testagent" /\ pc = "ended"
     /\ scen[1] \in {"1", "2", "3", "4", "5"}
     /\ scen[2] # <<>>) =>
        /\ DocumentedPath(scen[1], scen[2]) \in DOMAIN files
        /\ files[DocumentedPath(scen[1], scen[2])] = generateTest(config)

(***************************************************************************)
(* C19. For the choices 1-4 of the aggregation agent, when the agent has   *)
(* finished the .env file has AGGREGATION_METHOD set to the chosen method. *)
(* Stated for a working directory whose .env holds an AGGREGATION_METHOD   *)
(* line, so that there is a line to set.                                   *)
(***************************************************************************)
\* the values of the lines of a text that hold the key
ValuesOf(content, key) == {content[i].value : i \in {j \in 1..Len(content) : content[j].key = key}}

C19_EnvHasChosenMethod ==
    (/\ proc = "aggregation" /\ pc = "ended"
     /\ scen[1] \in {<<"1">>, <<"2">>, <<"3">>, <<"4">>}
     /\ EnvPath \in DOMAIN files
     /\ ValuesOf(files[EnvPath], "AGGREGATION_METHOD") # {}) =>
        ValuesOf(files[EnvPath], "AGGREGATION_METHOD") = {<<methodMap(scen[1])>>}

(***************************************************************************)
(* C21. Whenever a result insert has been issued, the case upsert that     *)
(* yielded its case id has completed: the id it carries is the id of a     *)
(* stored case row of that test, under any interleaving of onTestEnd calls *)
(* and in the ingester.                                                    *)
(***************************************************************************)
\* the id is that of a stored case row with this test id
ResolvedTo(testId, caseId) ==
    \E row \in test_cases : row.id = caseId /\ row.test_id = testId

C21_CaseResolvedBeforeInsert ==
    /\ proc = "reporter" =>
           \A h \in handlers :
               h.at \in {"insert", "metric"} => ResolvedTo(ReporterTestId(TestOf(h)), h.caseId)
    /\ Awaiting("result") =>
           ResolvedTo(IngesterTestId(Awaited.spec.file, Awaited.spec.title), testCaseId)
    /\ \A r \in DOMAIN test_results : CaseExists(test_cases, test_results[r].test_case_id)

\* two onTestEnd calls overlap: one has its case id and awaits the result insert, the
\* other still awaits its upsert
C21_Witness ==
    /\ proc = "reporter"
    /\ \E g, h \in handlers : g.at = "upsert" /\ h.at = "insert" /\ h.caseId > 0

(***************************************************************************)
(* C22. A successful ingestion writes exactly one test_results row for     *)
(* each result of the report, at any nesting depth of child suites: the    *)
(* rows of the run are as many as the results in the tree, status by       *)
(* status and attempt by attempt, and no query wrote two of them.          *)
(***************************************************************************)
RECURSIVE ResultsIn(_)
\* the results in a list of suites, collected child suites first
ResultsIn(suites) ==
    IF suites = <<>> THEN <<>>
    ELSE LET suite == Head(suites)
             RECURSIVE ofTests(_)
             ofTests(tests) == IF tests = <<>> THEN <<>> ELSE Head(tests).results \o ofTests(Tail(tests))
             RECURSIVE ofSpecs(_)
             ofSpecs(specs) == IF specs = <<>> THEN <<>> ELSE ofSpecs(Tail(specs)) \o ofTests(Head(specs).tests)
         IN  ResultsIn(suite.suites) \o ofSpecs(suite.specs) \o ResultsIn(Tail(suites))

\* the results of a report with a status and an attempt number
ResultsLike(name, st, retry) ==
    LET all == ResultsIn(ReportOf(name).suites)
    IN  {i \in DOMAIN all : all[i].status = st /\ all[i].retry = retry}

C22_OneRowPerResult ==
    IngesterClosed =>
        /\ Cardinality(RowsOf(runId)) = Len(ResultsIn(ReportOf(scen).suites))
        /\ \A st \in {"passed", "failed", "timedOut", "skipped", "interrupted"}, retry \in 0..2 :
               Cardinality({i \in RowsWith(runId, st) : test_results[i].retry_count = retry})
                   = Cardinality(ResultsLike(scen, st, retry))
        /\ \A i, j \in RowsOf(runId) : test_results[i].src = test_results[j].src => i = j

\* the report with suites nested three deep has been ingested: six results, six rows
C22_Witness ==
    /\ IngesterClosed
    /\ scen = "nested.json"
    /\ Cardinality(RowsOf(runId)) = 6

(***************************************************************************)
(* C23. At close the status of the run is written as completed when the    *)
(* overall outcome of the run is passed, and as failed when the run was    *)
(* cut short (timedout, interrupted), in the live reporter and in the      *)
(* ingester of the report of the same run alike.                           *)
(***************************************************************************)
\* the overall outcome of the run an input stands for: a live run, or the live run whose
\* report the file is
OutcomeOfInput(name) ==
    IF name \in LiveNames THEN OutcomeOf(name)
    ELSE OutcomeOf(CHOOSE live \in LiveNames : ReportNameOf(live) = name)

C23_StatusFollowsOutcome ==
    faults = 0 =>
        \A row \in test_runs :
            row.status # "running" =>
                LET outcome == OutcomeOfInput(plan[row.run_id])
                IN  /\ outcome = "passed" => row.status = "completed"
                    /\ outcome \in {"timedout", "interrupted"} => row.status = "failed"

(***************************************************************************)
(* C24. For a result of a performance test whose stdout has no metrics     *)
(* marker, or a marker followed by an object that does not parse, no       *)
(* test_metrics row is written, its test_results row is stored, and        *)
(* onTestEnd caught no error: stated for every onTestEnd that has returned *)
(* while the run is open and no query was rejected.                        *)
(***************************************************************************)
\* the stdout of the attempt has no marker, or the regex captures a text that JSON.parse
\* rejects
NoMetricsPayload(e) ==
    LET text == JoinLines(e.stdout)
    IN  \/ ~Includes(text, Marker)
        \/ MetricsMatch(text) # <<>> /\ ~ParseObject(MetricsMatch(text)).ok

\* the onTestEnd calls of this run that have returned
Returned == {k \in 1..cursor : \A h \in handlers : h.k # k}

C24_UnparsedMetricsAreSkipped ==
    (proc = "reporter" /\ pc = "begun" /\ faults = 0) =>
        \A k \in Returned :
            LET e == EventsOf(scen)[k]
                rows == {r \in RowsOf(runId) : test_results[r].src = k}
            IN  (inferTestType(e.test.file) = "performance" /\ NoMetricsPayload(e)) =>
                    /\ k \notin lost
                    /\ Cardinality(rows) = 1
                    /\ \A i \in DOMAIN test_metrics : test_metrics[i].test_result_id \notin rows

\* both attempts of the run without a usable payload have been reported: two result rows,
\* no metric
C24_Witness ==
    /\ proc = "reporter" /\ pc = "begun" /\ faults = 0
    /\ plan = <<"quiet">>
    /\ Returned = {1, 2}
    /\ Len(test_results) = 2
    /\ test_metrics = <<>>

(***************************************************************************)
(* C25. Once a session has ended, no test_runs row is left in status       *)
(* `running`: neither when ResultsIngester.ingest failed after it created  *)
(* the run row, nor when the statistics query or the update of             *)
(* DatabaseReporter.onEnd failed.                                          *)
(***************************************************************************)
C25_NoRunLeftRunning ==
    proc = "idle" => \A row \in test_runs : row.status # "running"

(***************************************************************************)
(* C26. When onTestEnd calls are in flight while onEnd runs, no query      *)
(* reaches the pool after closeDatabase ended it, and every result handed  *)
(* to onTestEnd before onEnd has its row and is in the counts onEnd wrote: *)
(* stated for a DatabaseReporter that has closed, once every onTestEnd has *)
(* returned, when the database rejected no query.                          *)
(***************************************************************************)
\* the counts in the row of a run
CountsOf(row) ==
    [passed |-> row.passed_tests, failed |-> row.failed_tests,
     skipped |-> row.skipped_tests, flaky |-> row.flaky_tests]

C26_InFlightResultsSurviveClose ==
    (proc = "reporter" /\ pc = "ended" /\ handlers = {} /\ faults = 0) =>
        /\ lost = {}
        /\ \A k \in 1..cursor : \E r \in RowsOf(runId) : test_results[r].src = k
        /\ \A row \in test_runs :
               row.run_id = runId => CountsOf(row) = getRunStats(test_results, runId)

(***************************************************************************)
(* C27. Every row of test_results references a test_cases row whose        *)
(* project_name and browser are the project that produced the result.      *)
(***************************************************************************)
\* the project of the attempt a row of test_results was written for: of the event of
\* the live run, or of the test in the report
ProjectOfRow(row) ==
    LET name == plan[row.run_id]
    IN  IF name \in JsonNames \cup CliJsonNames
        THEN LET q == IngestQueries(ReportOf(name))[row.src]
             IN  q.spec.tests[q.ti].projectName
        ELSE EventsOf(name)[row.src].test.project

C27_CaseOfTheProducingProject ==
    \A r \in DOMAIN test_results :
        LET project == ProjectOfRow(test_results[r])
        IN  project # <<>> =>
                \A c \in test_cases :
                    c.id = test_results[r].test_case_id =>
                        c.project_name = project /\ c.browser = project

(***************************************************************************)
(* C28. Whatever CI_PROVIDER and GITHUB_ACTIONS are, the reporter and the  *)
(* ingester write the same ci_provider to the run row: CI_PROVIDER when it *)
(* is set, else github when GITHUB_ACTIONS is set, else local.             *)
(***************************************************************************)
DocumentedCiProvider(e) ==
    IF e.CI_PROVIDER # Unset THEN e.CI_PROVIDER
    ELSE IF e.GITHUB_ACTIONS # Unset THEN <<"github">>
    ELSE <<"local">>

C28_SameCiProvider ==
    \A row \in test_runs : row.ci_provider = DocumentedCiProvider(env)

(***************************************************************************)
(* C29. The aggregation agent writes .env only when the setup of the       *)
(* chosen method finished: without a TestDino account, with an empty API   *)
(* key or project id, without Docker, or after `n` at the confirmation of  *)
(* the Docker setup, no step of the agent changes .env.                    *)
(***************************************************************************)
\* the setup of the method returned before its end
SetupAbandoned ==
    /\ proc = "aggregation" /\ pc = "update"
    /\ \/ /\ config.method = "testdino"
          /\ \/ LowerCase(scen[2]) # <<"y">>
             \/ config.testdinoApiKey = <<>>
             \/ config.testdinoProjectId = <<>>
       \/ /\ config.method = "database" /\ config.useDocker
          /\ \/ Len(scen) = 2
             \/ LowerCase(scen[4]) = <<"n">>

C29_EnvKeptWhenSetupAbandoned ==
    [][SetupAbandoned => files' = files]_vars

(***************************************************************************)
(* C30. waitForApiReady terminates after at most maxAttempts requests: it  *)
(* returns true at the first attempt whose response is ok, issuing no      *)
(* further request, and it returns false exactly when all maxAttempts      *)
(* attempts threw or had a response that is not ok.                        *)
(***************************************************************************)
\* the requests of the call
Attempts == {i \in DOMAIN http : http[i].call = session}

\* the attempts of the call that threw or had a response that is not ok
FailedAttempts == {i \in Attempts : http[i].status \in {"notok", "throws"}}

WaitOutcome ==
    proc = "waiter" =>
        /\ Cardinality(Attempts) <= config.maxAttempts
        /\ \A i \in Attempts : http[i].status = "ok" =>
               /\ config.returned = <<TRUE>>
               /\ \A j \in Attempts : j <= i
        /\ config.returned = <<TRUE>> => \E i \in Attempts : http[i].status = "ok"
        /\ config.returned = <<FALSE>> <=>
               (pc = "ended" /\ Cardinality(FailedAttempts) = config.maxAttempts)

C30_WaitForApiReady ==
    /\ []WaitOutcome
    /\ (proc = "waiter") ~> (proc = "waiter" /\ config.returned # <<>>)

\* a call that returned true at its third attempt, after a throw and a response not ok
C30_Witness ==
    /\ proc = "waiter" /\ pc = "ended"
    /\ scen = <<"throws", "notok", "ok">>
    /\ config.returned = <<TRUE>>
    /\ Cardinality(Attempts) = 3

====
